---- MODULE Spec2Model ----
(***************************************************************************)
(* Model of the GPS-disciplined NTP server of ntp-server-arduino:          *)
(*   src/NTP.h  - class NTP  (request handling, rate limiting, replies)    *)
(*   src/GPS.h  - class GPS  (NMEA sentence parsing, satellite table)      *)
(*                                                                         *)
(* Conventions                                                             *)
(*  - millis() is the variable now; it does not advance inside one call.   *)
(*  - DOP values (double in the source) are decimal tenths: 15 is 1.5.     *)
(*  - a 32-bit unsigned value that does not fit a TLC integer is a pair    *)
(*    <<high 16 bits, low 16 bits>>; an 8-byte NTP timestamp is the four   *)
(*    big-endian 16-bit words <<sec.hi, sec.lo, frac.hi, frac.lo>>.        *)
(*  - the 48-byte packet buffer is a record of its fields, one field per   *)
(*    byte range of the wire layout.                                       *)
(***************************************************************************)
EXTENDS Integers, Sequences, FiniteSets, TLC

VARIABLES
    now,          \* millis()
    gpsData,      \* GPS::gpsData, the snapshot read through GPS::getData()
    satTracking,  \* GPS::satTracking, the satellite table
    ntp,          \* the NTP object: its private fields and the socket's output
    passLog,      \* history: when checkGlobalRateLimit admitted requests, last 1000 ms
    lastServed,   \* history: per source address, when it last got a normal reply (-1: never)
    delivered,    \* history: the datagram the last step's process() call found, or NotCalled
    parsed,       \* history: the last sentence given to parseNMEASentence, and how many were
    history,      \* GPS::history, the ring of recorded samples
    eventLog,     \* GPS::eventLog, the ring of events
    health,       \* GPS::health, the scores and the alert
    watchdog,     \* GPS::watchdog
    tinyGPS,      \* GPS::tinyGPS, what the TinyGPS++ decoder reports
    received,     \* history: what the last step's GPS::process() read, or NotRun
    gpsBuffer,    \* GPS::gpsBuffer, the bytes of the line being received
    lineLog       \* history: the line the last step gave to parseNMEASentence, if any,
                  \*          and whether bytes since the last '$' were discarded

\* the fields of the GPS object that only GPS::process() writes
gpsRest == <<history, eventLog, health, watchdog, tinyGPS, received, gpsBuffer, lineLog>>

vars == <<now, gpsData, satTracking, ntp, passLog, lastServed, delivered, parsed,
          history, eventLog, health, watchdog, tinyGPS, received, gpsBuffer, lineLog>>

----------------------------------------------------------------------------
(* Program constants                                                       *)

NTP_PACKET_SIZE == 48
NTP_PORT == 123
NTP_DEFAULT_CLIENT_INTERVAL == 1000
NTP_AGGRESSIVE_THRESHOLD == 10
NTP_CLIENT_TIMEOUT == 3600000
NTP_MIN_SATELLITES == 4
NTP_MAX_HDOP == 100
NTP_MAX_FIX_AGE == 5000
MAX_SATELLITES == 32
HISTORY_BUFFER_SIZE == 60
GPS_BUFFER_MAX == 120
MAX_EVENTS == 50
GPS_DATA_TIMEOUT == 10000
GPS_HEARTBEAT_TIMEOUT == 10000
EVENT_COOLDOWN == 60000
HISTORY_INTERVAL == 10000
HEALTH_WEIGHT_SATELLITES == 30
HEALTH_WEIGHT_HDOP == 25
HEALTH_WEIGHT_SNR == 20
HEALTH_WEIGHT_FIX_AGE == 15
HEALTH_WEIGHT_FIX_MODE == 10

\* 2208988800 = 0x83AA7E80 as <<high word, low word>>
NTP_EPOCH_OFFSET == <<33706, 32384>>

----------------------------------------------------------------------------
(* Bounds of the model                                                     *)

MaxTime == 1501          \* the clock stops advancing here
MaxRequests == 3         \* datagrams delivered to the server
MaxClients == 1          \* config.maxClients given to begin()
GlobalMax == 2           \* config.globalMaxRequestsPerSec given to begin()
MaxBroadcasts == 1       \* manual sendBroadcast() calls

\* the clock readings at which the main loop runs
Times == {t \in {1000, 1501, 2502} : t <= MaxTime}
Addresses == {"ipA", "ipB", "ipC"}

----------------------------------------------------------------------------
(* 32-bit helpers                                                          *)

U32(v) == <<v \div 65536, v % 65536>>

Add32(a, b) ==
    LET lo == a[2] + b[2]
        hi == a[1] + b[1] + (lo \div 65536)
    IN  <<hi % 65536, lo % 65536>>

ZeroTimestamp == <<0, 0, 0, 0>>

\* the statements of a function run one after the other: Rest is applied to the
\* value x has once it is computed
Bind(x, Rest(_)) == CHOOSE r \in { Rest(y) : y \in {x} } : TRUE

----------------------------------------------------------------------------
(* Packets                                                                 *)

\* memset(packet, 0, NTP_PACKET_SIZE)
ZeroPacket ==
    [flags |-> 0, stratum |-> 0, poll |-> 0, precision |-> 0,
     rootDelay |-> 0, rootDispersion |-> 0, refId |-> "",
     refTs |-> ZeroTimestamp, origTs |-> ZeroTimestamp,
     recvTs |-> ZeroTimestamp, xmitTs |-> ZeroTimestamp]

\* byte 0 = leap << 6 | version << 3 | mode
FlagsOf(leap, version, mode) == leap * 64 + version * 8 + mode

\* the 48-byte payloads the model delivers: two well-formed requests ...
V4Request ==
    [ZeroPacket EXCEPT !.flags = FlagsOf(0, 4, 3), !.stratum = 2, !.poll = 6,
                       !.xmitTs = <<59000, 4660, 32768, 1>>]

V3Request ==
    [ZeroPacket EXCEPT !.flags = FlagsOf(3, 3, 3), !.stratum = 16, !.poll = 12]

\* ... and one for each way of failing validateNTPRequest
InvalidRequests ==
    { [ZeroPacket EXCEPT !.flags = FlagsOf(0, 2, 3), !.stratum = 2, !.poll = 6],
      [ZeroPacket EXCEPT !.flags = FlagsOf(0, 4, 4), !.stratum = 2, !.poll = 6],
      [ZeroPacket EXCEPT !.flags = FlagsOf(0, 4, 3), !.stratum = 17, !.poll = 6] }

NoDatagram == [size |-> 0, ip |-> "none", pkt |-> ZeroPacket]

\* value of the history variable delivered after a step that is no process() call
NotCalled == [size |-> -1, ip |-> "none", pkt |-> ZeroPacket]

\* what udpRef->parsePacket() / remoteIP() / read() deliver
Datagrams ==
    { NoDatagram, [size |-> 47, ip |-> "ipA", pkt |-> ZeroPacket] }
    \cup { [size |-> NTP_PACKET_SIZE, ip |-> a, pkt |-> V4Request] : a \in Addresses }
    \cup { [size |-> NTP_PACKET_SIZE, ip |-> "ipA", pkt |-> p] : p \in {V3Request} \cup InvalidRequests }

extractVersion(packet) == (packet.flags \div 8) % 8

extractStratum(packet) == packet.stratum

extractPollInterval(packet) ==
    IF packet.poll < 4 THEN 4
    ELSE IF packet.poll > 10 THEN 10
    ELSE packet.poll

\* variant: the stratum byte is not looked at
validateNTPRequest_AnyStratum(packet) ==
    LET version == extractVersion(packet)
        mode == packet.flags % 8
    IN  /\ ~(version < 3 \/ version > 4)
        /\ mode = 3

validateNTPRequest(packet) ==
    LET version == extractVersion(packet)
        mode == packet.flags % 8
        stratum == packet.stratum
    IN  /\ ~(version < 3 \/ version > 4)
        /\ mode = 3
        /\ ~(stratum > 16)


----------------------------------------------------------------------------
(* GPS quality as seen by the server                                       *)

\* variant: the HDOP of the snapshot is not looked at
isGPSQualitySufficient_AnyHdop(n, g) ==
    IF ~g.timeValid THEN FALSE
    ELSE IF g.satellites < n.config.minSatellites THEN FALSE
    ELSE IF g.updateAge > n.config.maxFixAge THEN FALSE
    ELSE TRUE

\* NTP::isGPSQualitySufficient
isGPSQualitySufficient(n, g) ==
    IF ~g.timeValid THEN FALSE
    ELSE IF g.satellites < n.config.minSatellites THEN FALSE
    ELSE IF g.hdop > n.config.maxHDOP THEN FALSE
    ELSE IF g.updateAge > n.config.maxFixAge THEN FALSE
    ELSE TRUE

\* NTP::calculateRootDelayDispersion, results already scaled to 16.16 fixed point
\* as buildNTPPacket does: (uint32_t)(seconds * 65536.0)
calculateRootDelayDispersion(g) ==
    LET rootDelay == IF g.pdop < 20 THEN 65          \* 0.001 s
                     ELSE IF g.pdop < 50 THEN 327    \* 0.005 s
                     ELSE 655                        \* 0.010 s
        \* updateAge / 1000.0 + hdop * 0.001, in units of 1/10000 s
        tenThousandths == IF g.updateAge > 1000 THEN 10001
                          ELSE g.updateAge * 10 + g.hdop
        rootDispersion == IF tenThousandths > 10000 THEN 65536
                          ELSE (tenThousandths * 65536) \div 10000
    IN  [rootDelay |-> rootDelay, rootDispersion |-> rootDispersion]

\* (uint64_t)centiseconds * 2^32 / 100 as <<high word, low word>>
CentiFraction(cs) ==
    LET a == cs * 65536
    IN  <<(a \div 100) % 65536, ((a % 100) * 65536) \div 100>>

\* NTP::gpsTimeToNTP
gpsTimeToNTP(g) ==
    [seconds |-> Add32(U32(g.unixTime), NTP_EPOCH_OFFSET),
     fraction |-> CentiFraction(g.centisecond)]

\* micros(): the microsecond clock, in step with millis() in this model, as
\* <<whole seconds, microseconds of the second>>; it stays below its 32-bit wrap
micros(t) == <<t \div 1000, (t % 1000) * 1000>>

\* NTP::microsToNTP.  The two function-local statics are the fields
\* lastGPSUpdateMicros and gpsUpdateMillis of the server state.
microsToNTPStatics(n, g, currentMicros) ==
    IF g.lastUpdateMillis # n.gpsUpdateMillis
    THEN [n EXCEPT !.lastGPSUpdateMicros = currentMicros,
                   !.gpsUpdateMillis = g.lastUpdateMillis]
    ELSE n

microsToNTP(n, g, currentMicros) ==
    LET ts == gpsTimeToNTP(g)
        n1 == microsToNTPStatics(n, g, currentMicros)
        \* elapsedMicros = currentMicros - lastGPSUpdateMicros, split into
        \* elapsedMicros / 1000000 and elapsedMicros % 1000000
        borrow == IF currentMicros[2] < n1.lastGPSUpdateMicros[2] THEN 1 ELSE 0
        wholeSeconds == currentMicros[1] - n1.lastGPSUpdateMicros[1] - borrow
        r == (currentMicros[2] - n1.lastGPSUpdateMicros[2] + borrow * 1000000) * 1024
        \* (elapsed % 10^6) * 2^32 / 10^6 as <<high word, low word>>
        microsFraction == <<r \div 15625, ((r % 15625) * 65536) \div 15625>>
        lo == ts.fraction[2] + microsFraction[2]
        hi == ts.fraction[1] + microsFraction[1] + (lo \div 65536)
        carry == hi \div 65536
    IN  [seconds |-> Add32(ts.seconds, U32(wholeSeconds + carry)),
         fraction |-> <<hi % 65536, lo % 65536>>]

\* NTP::writeNTPTimestamp: the eight bytes as four big-endian words
writeNTPTimestamp(ts) == <<ts.seconds[1], ts.seconds[2], ts.fraction[1], ts.fraction[2]>>


----------------------------------------------------------------------------
(* Replies                                                                 *)

\* udpRef->beginPacket(ip, port); write(packetBuffer, 48); endPacket()
udpSend(n, ip) == [n EXCEPT !.sent = Append(@, [ip |-> ip, pkt |-> n.packetBuffer])]

\* variant: the age of the snapshot does not raise the alarm
buildNTPPacket_AgeIgnored(n, g, request, aliased, receiveTimeMicros, transmitTimeMicros) ==
    LET p0 == ZeroPacket                                   \* memset(packet, 0, 48)
        r0 == IF aliased THEN p0 ELSE request
        leapIndicator == IF ~g.timeValid THEN 3 ELSE 0
        version == extractVersion(r0)
        dd == calculateRootDelayDispersion(g)
        p1 == [p0 EXCEPT !.flags = FlagsOf(leapIndicator, version, 4),
                         !.stratum = n.config.stratum]
        r1 == IF aliased THEN p1 ELSE request
        p2 == [p1 EXCEPT !.poll = extractPollInterval(r1),
                         !.precision = 236,               \* 0xEC
                         !.rootDelay = dd.rootDelay,
                         !.rootDispersion = dd.rootDispersion,
                         !.refId = n.config.referenceID,
                         !.refTs = writeNTPTimestamp(
                                      [seconds |-> Add32(U32(g.unixTime), NTP_EPOCH_OFFSET),
                                       fraction |-> CentiFraction(g.lockAcquiredFraction)])]
        r2 == IF aliased THEN p2 ELSE request
        p3 == [p2 EXCEPT !.origTs = r2.xmitTs]            \* memcpy(&packet[24], &request[40], 8)
        n1 == microsToNTPStatics(n, g, receiveTimeMicros)
        p4 == [p3 EXCEPT !.recvTs = writeNTPTimestamp(microsToNTP(n, g, receiveTimeMicros))]
        n2 == microsToNTPStatics(n1, g, transmitTimeMicros)
        p5 == [p4 EXCEPT !.xmitTs = writeNTPTimestamp(microsToNTP(n1, g, transmitTimeMicros))]
    IN  [n2 EXCEPT !.packetBuffer = p5]

\* NTP::buildNTPPacket(packet, request, ...) with packet = packetBuffer.
\* aliased says that request points at packetBuffer too, as it does in the call
\* from handleNTPRequests through sendNTPResponse: every read of the request
\* then sees what the function has written to the packet so far.
buildNTPPacket(n, g, request, aliased, receiveTimeMicros, transmitTimeMicros) ==
    LET p0 == ZeroPacket                                   \* memset(packet, 0, 48)
        r0 == IF aliased THEN p0 ELSE request
        leapIndicator == IF ~g.timeValid \/ g.updateAge > 2000 THEN 3 ELSE 0
        version == extractVersion(r0)
        dd == calculateRootDelayDispersion(g)
        p1 == [p0 EXCEPT !.flags = FlagsOf(leapIndicator, version, 4),
                         !.stratum = n.config.stratum]
        r1 == IF aliased THEN p1 ELSE request
        p2 == [p1 EXCEPT !.poll = extractPollInterval(r1),
                         !.precision = 236,               \* 0xEC
                         !.rootDelay = dd.rootDelay,
                         !.rootDispersion = dd.rootDispersion,
                         !.refId = n.config.referenceID,
                         !.refTs = writeNTPTimestamp(
                                      [seconds |-> Add32(U32(g.unixTime), NTP_EPOCH_OFFSET),
                                       fraction |-> CentiFraction(g.lockAcquiredFraction)])]
        r2 == IF aliased THEN p2 ELSE request
        p3 == [p2 EXCEPT !.origTs = r2.xmitTs]            \* memcpy(&packet[24], &request[40], 8)
        n1 == microsToNTPStatics(n, g, receiveTimeMicros)
        p4 == [p3 EXCEPT !.recvTs = writeNTPTimestamp(microsToNTP(n, g, receiveTimeMicros))]
        n2 == microsToNTPStatics(n1, g, transmitTimeMicros)
        p5 == [p4 EXCEPT !.xmitTs = writeNTPTimestamp(microsToNTP(n1, g, transmitTimeMicros))]
    IN  [n2 EXCEPT !.packetBuffer = p5]

\* NTP::sendNTPResponse(clientIP, port, request = packetBuffer, receiveTimeMicros)
sendNTPResponse(n, g, ip, t) ==
    udpSend(buildNTPPacket(n, g, n.packetBuffer, TRUE, micros(t), micros(t)), ip)

\* variant: the denial is sent but not counted
sendKissOfDeath_NoCount(n, ip, kissCode) ==
    LET p == [ZeroPacket EXCEPT !.flags = 220, !.stratum = 0, !.refId = kissCode]
    IN  udpSend([n EXCEPT !.packetBuffer = p], ip)

\* variant: the kiss code is not copied into the packet
sendKissOfDeath_NoCode(n, ip, kissCode) ==
    LET p == [ZeroPacket EXCEPT !.flags = 220, !.stratum = 0]
        n1 == udpSend([n EXCEPT !.packetBuffer = p], ip)
    IN  [n1 EXCEPT !.metrics.kodSent = @ + 1]

\* variant: the buffer is not cleared first
sendKissOfDeath_NoMemset(n, ip, kissCode) ==
    LET p == [n.packetBuffer EXCEPT !.flags = 220, !.stratum = 0, !.refId = kissCode]
        n1 == udpSend([n EXCEPT !.packetBuffer = p], ip)
    IN  [n1 EXCEPT !.metrics.kodSent = @ + 1]

\* NTP::sendKissOfDeath
sendKissOfDeath(n, ip, kissCode) ==
    LET p == [ZeroPacket EXCEPT !.flags = 220,            \* 0xDC
                                !.stratum = 0,
                                !.refId = kissCode]
        n1 == udpSend([n EXCEPT !.packetBuffer = p], ip)
    IN  [n1 EXCEPT !.metrics.kodSent = @ + 1]

----------------------------------------------------------------------------
(* Rate limiting                                                           *)

\* variant: the ceiling is compared with > instead of >=
checkGlobalRateLimit_OneMore(n, t) ==
    LET grl0 == n.globalRateLimit
        grl1 == IF t - grl0.lastSecondReset > 1000
                THEN [requestsThisSecond |-> 0, droppedThisSecond |-> 0, lastSecondReset |-> t]
                ELSE grl0
    IN  IF grl1.requestsThisSecond > n.config.globalMaxRequestsPerSec
        THEN [n |-> [n EXCEPT !.globalRateLimit = grl1], ok |-> FALSE]
        ELSE [n |-> [n EXCEPT !.globalRateLimit =
                                 [grl1 EXCEPT !.requestsThisSecond = @ + 1]],
              ok |-> TRUE]

\* variant: the ceiling is never enforced
checkGlobalRateLimit_NoCeiling(n, t) ==
    LET grl0 == n.globalRateLimit
        grl1 == IF t - grl0.lastSecondReset > 1000
                THEN [requestsThisSecond |-> 0, droppedThisSecond |-> 0, lastSecondReset |-> t]
                ELSE grl0
    IN  [n |-> [n EXCEPT !.globalRateLimit = [grl1 EXCEPT !.requestsThisSecond = @ + 1]],
         ok |-> TRUE]

\* NTP::checkGlobalRateLimit: the updated limiter and the verdict
checkGlobalRateLimit(n, t) ==
    LET grl0 == n.globalRateLimit
        grl1 == IF t - grl0.lastSecondReset > 1000
                THEN [requestsThisSecond |-> 0, droppedThisSecond |-> 0, lastSecondReset |-> t]
                ELSE grl0
    IN  IF grl1.requestsThisSecond >= n.config.globalMaxRequestsPerSec
        THEN [n |-> [n EXCEPT !.globalRateLimit = grl1], ok |-> FALSE]
        ELSE [n |-> [n EXCEPT !.globalRateLimit =
                                 [grl1 EXCEPT !.requestsThisSecond = @ + 1]],
              ok |-> TRUE]

clientCount(n) == Len(n.clients)

NewClient(ip, lastPollInterval) ==
    [ip |-> ip, requestCount |-> 0, lastRequest |-> 0, aggressiveCount |-> 0,
     aggressive |-> FALSE, rateLimited |-> FALSE, averageInterval |-> 0,
     lastPollInterval |-> lastPollInterval]

\* index of the entry with the smallest lastRequest among slots 1..k (first one wins)
RECURSIVE OldestIndex(_, _)
OldestIndex(cl, k) ==
    IF k = 1 THEN 1
    ELSE LET o == OldestIndex(cl, k - 1)
         IN  IF cl[k].lastRequest < cl[o].lastRequest THEN k ELSE o

\* variant: a full table always gives up its first slot
findOrCreateClient_EvictsFirst(n, ip) ==
    IF \E i \in 1..clientCount(n) : n.clients[i].ip = ip
    THEN [n |-> n,
          idx |-> CHOOSE i \in 1..clientCount(n) :
                     /\ n.clients[i].ip = ip
                     /\ \A j \in 1..(i - 1) : n.clients[j].ip # ip]
    ELSE IF clientCount(n) < n.config.maxClients
    THEN [n |-> [n EXCEPT !.clients = Append(@, NewClient(ip, 0)),
                          !.metrics.uniqueClients = clientCount(n) + 1],
          idx |-> clientCount(n) + 1]
    ELSE [n |-> [n EXCEPT !.clients[1] = NewClient(ip, n.clients[1].lastPollInterval)],
          idx |-> 1]

\* NTP::findOrCreateClient: the updated server and the index of the entry
findOrCreateClient(n, ip) ==
    IF \E i \in 1..clientCount(n) : n.clients[i].ip = ip
    THEN [n |-> n,
          idx |-> CHOOSE i \in 1..clientCount(n) :
                     /\ n.clients[i].ip = ip
                     /\ \A j \in 1..(i - 1) : n.clients[j].ip # ip]
    ELSE IF clientCount(n) < n.config.maxClients
    THEN \* a slot never written before: lastPollInterval is not set here and is
         \* written by updateClientStats before anything reads it
         [n |-> [n EXCEPT !.clients = Append(@, NewClient(ip, 0)),
                          !.metrics.uniqueClients = clientCount(n) + 1],
          idx |-> clientCount(n) + 1]
    ELSE LET oldestIndex == OldestIndex(n.clients, n.config.maxClients)
         IN  [n |-> [n EXCEPT !.clients[oldestIndex] =
                                  NewClient(ip, n.clients[oldestIndex].lastPollInterval)],
              idx |-> oldestIndex]

\* NTP::updateClientStats
updateClientStats(client, pollInterval, t) ==
    [client EXCEPT !.requestCount = @ + 1,
                   !.lastPollInterval = pollInterval,
                   !.averageInterval = IF @ = 0 THEN t - client.lastRequest
                                       ELSE (@ * 3 + (t - client.lastRequest)) \div 4]

\* variant: a request that comes too soon is refused without being counted
checkClientRateLimit_NoCount(n, ip, pollInterval, t) ==
    LET f == findOrCreateClient(n, ip)
        client == f.n.clients[f.idx]
        timeSinceLastRequest == t - client.lastRequest
    IN  IF timeSinceLastRequest < n.config.perClientMinInterval
        THEN [n |-> [f.n EXCEPT !.clients[f.idx] = [client EXCEPT !.rateLimited = TRUE]],
              ok |-> FALSE]
        ELSE [n |-> [f.n EXCEPT !.clients[f.idx] =
                        [updateClientStats(client, pollInterval, t)
                            EXCEPT !.lastRequest = t, !.rateLimited = FALSE]],
              ok |-> TRUE]

\* variant: a served request clears the aggressive flag
checkClientRateLimit_Forgives(n, ip, pollInterval, t) ==
    LET f == findOrCreateClient(n, ip)
        client == f.n.clients[f.idx]
        timeSinceLastRequest == t - client.lastRequest
    IN  IF timeSinceLastRequest < n.config.perClientMinInterval
        THEN [n |-> [f.n EXCEPT !.clients[f.idx] =
                        [client EXCEPT !.rateLimited = TRUE,
                                       !.aggressiveCount = (@ + 1) % 65536,
                                       !.aggressive = IF (client.aggressiveCount + 1) % 65536
                                                            > NTP_AGGRESSIVE_THRESHOLD
                                                      THEN TRUE ELSE @]],
              ok |-> FALSE]
        ELSE [n |-> [f.n EXCEPT !.clients[f.idx] =
                        [updateClientStats(client, pollInterval, t)
                            EXCEPT !.lastRequest = t, !.rateLimited = FALSE,
                                   !.aggressive = FALSE]],
              ok |-> TRUE]

\* NTP::checkClientRateLimit: the updated server and the verdict
checkClientRateLimit(n, ip, pollInterval, t) ==
    LET f == findOrCreateClient(n, ip)
        client == f.n.clients[f.idx]
        timeSinceLastRequest == t - client.lastRequest
    IN  IF timeSinceLastRequest < n.config.perClientMinInterval
        THEN [n |-> [f.n EXCEPT !.clients[f.idx] =
                        [client EXCEPT !.rateLimited = TRUE,
                                       !.aggressiveCount = (@ + 1) % 65536,   \* uint16_t
                                       !.aggressive = IF (client.aggressiveCount + 1) % 65536
                                                            > NTP_AGGRESSIVE_THRESHOLD
                                                      THEN TRUE ELSE @]],
              ok |-> FALSE]
        ELSE [n |-> [f.n EXCEPT !.clients[f.idx] =
                        [updateClientStats(client, pollInterval, t)
                            EXCEPT !.lastRequest = t, !.rateLimited = FALSE]],
              ok |-> TRUE]


----------------------------------------------------------------------------
(* Request handling                                                        *)

\* the metrics block at the end of handleNTPRequests; it reads packetBuffer
\* after sendNTPResponse has built the reply in it
servedMetrics(n, t) ==
    LET version == extractVersion(n.packetBuffer)
        clientStratum == extractStratum(n.packetBuffer)
        vi == IF version >= 1 /\ version <= 4 THEN version - 1 ELSE 4
        m1 == [n.metrics EXCEPT !.totalRequests = @ + 1,
                                !.validResponses = @ + 1,
                                !.clientVersions[vi] = @ + 1]
    IN  IF clientStratum <= 16
        THEN [m1 EXCEPT !.requestsByStratum[clientStratum] = @ + 1]
        ELSE m1

\* variant: an empty poll of the socket is counted as an invalid request
wrongSize_CountsEmpty(n, packetSize) ==
    [n EXCEPT !.metrics.invalidRequests = @ + 1]

\* NTP::handleNTPRequests, the branch taken when packetSize != NTP_PACKET_SIZE
wrongSize(n, packetSize) ==
    IF packetSize > 0 THEN [n EXCEPT !.metrics.invalidRequests = @ + 1] ELSE n

\* NTP::handleNTPRequests, d being the datagram parsePacket() reports
handleNTPRequests(n, g, d, t) ==
    IF d.size # NTP_PACKET_SIZE
    THEN wrongSize(n, d.size)
    ELSE
    LET n1 == [n EXCEPT !.packetBuffer = d.pkt]          \* udpRef->read(packetBuffer, 48)
        glob == checkGlobalRateLimit(n1, t)
    IN  IF ~glob.ok
        THEN [glob.n EXCEPT !.metrics.rateLimitedRequests = @ + 1,
                            !.globalRateLimit.droppedThisSecond = @ + 1]
        ELSE IF ~validateNTPRequest(glob.n.packetBuffer)
        THEN [glob.n EXCEPT !.metrics.invalidRequests = @ + 1]
        ELSE IF ~isGPSQualitySufficient(glob.n, g)
        THEN sendKissOfDeath([glob.n EXCEPT !.metrics.noGPSDropped = @ + 1], d.ip, "DENY")
        ELSE
        LET pollInterval == extractPollInterval(glob.n.packetBuffer)
            cli == IF glob.n.config.rateLimitEnabled
                   THEN checkClientRateLimit(glob.n, d.ip, pollInterval, t)
                   ELSE [n |-> glob.n, ok |-> TRUE]
        IN  IF ~cli.ok
            THEN sendKissOfDeath([cli.n EXCEPT !.metrics.rateLimitedRequests = @ + 1],
                                 d.ip, "RATE")
            ELSE LET n2 == sendNTPResponse(cli.n, g, d.ip, t)
                 IN  [n2 EXCEPT !.metrics = servedMetrics(n2, t)]

\* variant: the broadcast does not look at the quality of the snapshot
sendBroadcast_NoGate(n, g, t) ==
    IF ~n.config.broadcastEnabled THEN n
    ELSE
    LET request == [ZeroPacket EXCEPT !.flags = 35, !.poll = 6]     \* 0x23
        n1 == buildNTPPacket(n, g, request, FALSE, micros(t), micros(t))
        n2 == [n1 EXCEPT !.packetBuffer.flags = (@ - (@ % 8)) + 5]  \* (b0 & 0xF8) | 5
        n3 == udpSend(n2, "255.255.255.255")
    IN  [n3 EXCEPT !.lastBroadcast = t, !.metrics.broadcastsSent = @ + 1]

\* NTP::sendBroadcast
sendBroadcast(n, g, t) ==
    IF ~n.config.broadcastEnabled THEN n
    ELSE IF ~isGPSQualitySufficient(n, g) THEN n
    ELSE
    LET request == [ZeroPacket EXCEPT !.flags = 35, !.poll = 6]     \* 0x23
        n1 == buildNTPPacket(n, g, request, FALSE, micros(t), micros(t))
        n2 == [n1 EXCEPT !.packetBuffer.flags = (@ - (@ % 8)) + 5]  \* (b0 & 0xF8) | 5
        n3 == udpSend(n2, "255.255.255.255")
    IN  [n3 EXCEPT !.lastBroadcast = t, !.metrics.broadcastsSent = @ + 1]

\* variant: the slot that received the shifted entries is not examined again
RECURSIVE cleanupLoop_NoRecheck(_, _, _)
cleanupLoop_NoRecheck(cl, i, t) ==
    IF ~(i < Len(cl)) THEN cl
    ELSE IF t - cl[i + 1].lastRequest > NTP_CLIENT_TIMEOUT
    THEN cleanupLoop_NoRecheck(SubSeq(cl, 1, i) \o SubSeq(cl, i + 2, Len(cl)), i + 1, t)
    ELSE cleanupLoop_NoRecheck(cl, i + 1, t)

\* the loop of NTP::cleanupStaleClients from index i on (0-based), cl being the
\* first clientCount entries: a stale entry is overwritten by shifting the
\* entries behind it down, clientCount-- drops the last slot, and i-- makes the
\* next iteration examine the same index again
RECURSIVE cleanupLoop(_, _, _)
cleanupLoop(cl, i, t) ==
    IF ~(i < Len(cl)) THEN cl
    ELSE IF t - cl[i + 1].lastRequest > NTP_CLIENT_TIMEOUT
    THEN cleanupLoop(SubSeq(cl, 1, i) \o SubSeq(cl, i + 2, Len(cl)), i, t)
    ELSE cleanupLoop(cl, i + 1, t)

\* NTP::cleanupStaleClients
cleanupStaleClients(n, t) ==
    LET kept == cleanupLoop(n.clients, 0, t)
    IN  IF Len(kept) < Len(n.clients)
        THEN [n EXCEPT !.clients = kept, !.metrics.uniqueClients = Len(kept)]
        ELSE n

\* NTP::updateMetricsState
updateMetricsState(n, g) ==
    [n EXCEPT !.metrics.currentlyServing = isGPSQualitySufficient(n, g)]

\* NTP::process after its enabled test, d being the datagram waiting in the socket
process(n, g, d, t) ==
    Bind(handleNTPRequests(n, g, d, t), LAMBDA n1 :
    Bind(IF n1.config.broadcastEnabled /\ n1.config.autoBroadcast
            /\ t - n1.lastBroadcast > n1.config.broadcastInterval * 1000
         THEN sendBroadcast(n1, g, t)
         ELSE n1, LAMBDA n2 :
    Bind(IF t - n2.lastCleanup > 300000
         THEN [cleanupStaleClients(n2, t) EXCEPT !.lastCleanup = t]
         ELSE n2, LAMBDA n3 :
    updateMetricsState(n3, g))))

----------------------------------------------------------------------------
(* Initial state                                                           *)

\* NTP::getDefaultConfig with the rate limits and the table size of the model:
\* per-client limiting on and broadcast off (the default), or the reverse
Configs ==
    { [enabled |-> TRUE, rateLimitEnabled |-> q[1],
       perClientMinInterval |-> NTP_DEFAULT_CLIENT_INTERVAL,
       globalMaxRequestsPerSec |-> GlobalMax, maxClients |-> MaxClients,
       broadcastEnabled |-> q[2], broadcastInterval |-> 1, autoBroadcast |-> TRUE,
       stratum |-> 1, referenceID |-> "GPS",
       minSatellites |-> NTP_MIN_SATELLITES, maxHDOP |-> NTP_MAX_HDOP,
       maxFixAge |-> NTP_MAX_FIX_AGE] : q \in {<<TRUE, FALSE>>, <<FALSE, TRUE>>} }

\* memset(&metrics, 0, sizeof(NTPMetrics)): the counters and the serving flag
\* (the response-time statistics and the three time stamps of the struct, which
\* nothing in the server reads, are not part of the model)
ZeroMetrics ==
    [totalRequests |-> 0, validResponses |-> 0, invalidRequests |-> 0,
     rateLimitedRequests |-> 0, kodSent |-> 0, noGPSDropped |-> 0,
     poorQualityDropped |-> 0, broadcastsSent |-> 0,
     uniqueClients |-> 0,
     clientVersions |-> [i \in 0..4 |-> 0],
     requestsByStratum |-> [i \in 0..16 |-> 0],
     currentlyServing |-> FALSE]

\* NTP::begin
begin(cfg, t) ==
    [config |-> cfg,
     allocated |-> cfg.maxClients,
     clients |-> << >>,
     metrics |-> ZeroMetrics,
     globalRateLimit |-> [requestsThisSecond |-> 0, lastSecondReset |-> t,
                          droppedThisSecond |-> 0],
     packetBuffer |-> ZeroPacket,
     lastBroadcast |-> 0,
     lastCleanup |-> 0,
     lastGPSUpdateMicros |-> micros(0),
     gpsUpdateMillis |-> 0,
     sent |-> << >>]

\* memset(&gpsData, 0, sizeof(GPSData)) in GPS::begin
ZeroGPSData ==
    [timeValid |-> FALSE, centisecond |-> 0, unixTime |-> 0,
     lockAcquiredFraction |-> 0, satellites |-> 0,
     hdop |-> 0, pdop |-> 0, vdop |-> 0, fixMode |-> 0,
     lastUpdateMillis |-> 0, updateAge |-> 0, lastValidSentence |-> "",
     valid |-> FALSE, fixQuality |-> 0]

\* value of the history variable parsed before any sentence
NothingParsed == [kind |-> "none", systemId |-> 0, listed |-> {}, count |-> 0]

\* GPS::clearSatelliteTracking: no slot is tracked, count is 0
EmptySatTracking ==
    [satellites |-> << >>, count |-> 0, lastUpdate |-> 0,
     gpsCount |-> 0, glonassCount |-> 0, galileoCount |-> 0, beidouCount |-> 0,
     qzssCount |-> 0, totalInUse |-> 0]

\* GPS::addEvent: the ring of MAX_EVENTS entries; a slot never written is absent
addEvent(log, type, message, t) ==
    LET event == [type |-> type, timestamp |-> t, message |-> message]
    IN  [events |-> IF log.head + 1 > Len(log.events) THEN Append(log.events, event)
                    ELSE [log.events EXCEPT ![log.head + 1] = event],
         head |-> (log.head + 1) % MAX_EVENTS,
         count |-> IF log.count < MAX_EVENTS THEN log.count + 1 ELSE log.count]

\* the event types of enum EventType
EventTypes ==
    {"EVENT_GPS_FIX_ACQUIRED", "EVENT_GPS_FIX_LOST", "EVENT_LOW_SATELLITE_COUNT",
     "EVENT_HIGH_HDOP", "EVENT_HIGH_PDOP", "EVENT_GPS_TIMEOUT", "EVENT_GPS_UNRESPONSIVE",
     "EVENT_NETWORK_CONNECTED", "EVENT_NETWORK_DISCONNECTED", "EVENT_CONFIG_SAVED",
     "EVENT_NTP_SERVING_STARTED", "EVENT_SYSTEM_BOOT"}

\* GPS::begin at clock reading t: the ring of samples, the event log with the
\* boot event, the health record and the watchdog.  The five component scores
\* are not written by begin(); the object is taken to be zero-initialised.
beginHistory == [points |-> << >>, head |-> 0, count |-> 0, lastRecordTime |-> 0]
beginEventLog(t) ==
    addEvent([events |-> << >>, head |-> 0, count |-> 0],
             "EVENT_SYSTEM_BOOT", "GPS module initialized", t)
beginHealth ==
    [overallScore |-> 0, gpsScore |-> 0,
     satelliteScore |-> 0, hdopScore |-> 0, snrScore |-> 0, fixAgeScore |-> 0,
     fixModeScore |-> 0,
     criticalAlert |-> FALSE, warningAlert |-> FALSE, alertMessage |-> "",
     lastCalculation |-> 0]
beginWatchdog(t) ==
    [lastCharReceived |-> t, lastEventTime |-> [e \in EventTypes |-> 0],
     unresponsive |-> FALSE]

\* the decoder before it is fed a byte: nothing is valid
NoFix == [timeValid |-> FALSE, locationValid |-> FALSE, hdopValid |-> FALSE, hdop |-> 0,
          unixTime |-> 0, centisecond |-> 0]

\* value of the history variable received after a step that is not a cycle
NotRun == "NotRun"

\* value of the history variable lineLog before any byte is read
NoLine == [ready |-> FALSE, sentence |-> << >>, overflowed |-> FALSE]

Init ==
    /\ now = 1000                  \* setup() is over, the first loop iteration starts
    /\ gpsData = ZeroGPSData
    /\ satTracking = EmptySatTracking
    /\ \E cfg \in Configs : ntp = begin(cfg, 0)
    /\ passLog = << >>
    /\ lastServed = [a \in Addresses |-> -1]
    /\ delivered = NotCalled
    /\ parsed = NothingParsed
    /\ history = beginHistory
    /\ eventLog = beginEventLog(500)      \* begin() waits 500 ms before the boot event
    /\ health = beginHealth
    /\ watchdog = beginWatchdog(0)
    /\ tinyGPS = NoFix
    /\ received = NotRun
    /\ gpsBuffer = << >>                  \* gpsBuffer = "" in begin()
    /\ lineLog = NoLine

----------------------------------------------------------------------------
(* Actions of the time server                                              *)

\* the snapshots a processing cycle can leave: the quality gate's four inputs,
\* all good or one of them bad
GPSSnapshots ==
    { [ZeroGPSData EXCEPT !.timeValid = q[1], !.satellites = q[2], !.hdop = q[3],
                          !.updateAge = q[4], !.pdop = 15, !.unixTime = 1700000000,
                          !.centisecond = 50, !.lockAcquiredFraction = 50] :
        q \in { x \in BOOLEAN \X {3, 4} \X {100, 101} \X {0, 5001} :
                  (IF x[1] THEN 0 ELSE 1) + (4 - x[2]) + (x[3] - 100) + (x[4] \div 5001) <= 1 } }

\* The main loop calls GPS::process() and then NTP::process(), reading the clock
\* once per iteration.  GPSUpdate is the GPS::process() cycle of an iteration that
\* starts at clock reading t, reduced to the snapshot it leaves for getData().
GPSUpdate ==
    /\ \E t \in Times, g \in GPSSnapshots :
          /\ t >= now
          /\ now' = t
          /\ gpsData' = [g EXCEPT !.lastUpdateMillis = IF g.timeValid THEN t
                                                       ELSE gpsData.lastUpdateMillis]
    /\ delivered' = NotCalled
    /\ UNCHANGED <<satTracking, ntp, passLog, lastServed, parsed, gpsRest>>

\* a datagram that is not a Kiss-o'-Death (stratum 0) went to ip
NormalReplyTo(n, ip) ==
    \E i \in 1..Len(n.sent) : n.sent[i].ip = ip /\ n.sent[i].pkt.stratum # 0

Requests(n) ==
    n.metrics.validResponses + n.metrics.invalidRequests
      + n.metrics.rateLimitedRequests + n.metrics.noGPSDropped

\* one call of NTP::process()
Process ==
    /\ ntp.config.enabled
    /\ \E d \in Datagrams :
          /\ d.size > 0 => Requests(ntp) < MaxRequests
          /\ ntp' = process([ntp EXCEPT !.sent = << >>], gpsData, d, now)
          /\ delivered' = d
          /\ passLog' = IF d.size = NTP_PACKET_SIZE /\ checkGlobalRateLimit(ntp, now).ok
                        THEN Append(SelectSeq(passLog, LAMBDA x : now - x <= 1000), now)
                        ELSE passLog
          /\ lastServed' = IF NormalReplyTo(handleNTPRequests([ntp EXCEPT !.sent = << >>],
                                                              gpsData, d, now), d.ip)
                           THEN [lastServed EXCEPT ![d.ip] = now]
                           ELSE lastServed
    /\ UNCHANGED <<now, gpsData, satTracking, parsed, gpsRest>>

\* a direct call of the public NTP::sendBroadcast()
SendBroadcast ==
    /\ ntp.metrics.broadcastsSent < MaxBroadcasts
    /\ ntp' = sendBroadcast([ntp EXCEPT !.sent = << >>], gpsData, now)
    /\ delivered' = NotCalled
    /\ UNCHANGED <<now, gpsData, satTracking, passLog, lastServed, parsed, gpsRest>>

Next == GPSUpdate \/ Process \/ SendBroadcast

Spec == Init /\ [][Next]_vars

----------------------------------------------------------------------------
(* NMEA sentences                                                          *)
(*                                                                         *)
(* A sentence is "$" talker "," field "," ... "," field "*" checksum "\r". *)
(* A field is known by what the parsers take from its text: whether it is  *)
(* empty, its atoi() value, and its atof() value in tenths.                *)

MaxSentences == 3        \* sentences the receiver sends

F(n) == [empty |-> FALSE, atoi |-> n, atof |-> n * 10]             \* "7"
D(tenths) == [empty |-> FALSE, atoi |-> tenths \div 10, atof |-> tenths]   \* "1.3"
W == [empty |-> FALSE, atoi |-> 0, atof |-> 0]                      \* "A", "$GNGSA"
E == [empty |-> TRUE, atoi |-> 0, atof |-> 0]                       \* ""

\* The tokens strtok() yields for a sentence, in order: the non-empty fields
\* and the checksum (strtok skips every leading delimiter, so an empty field
\* yields no token).  last marks the field before the asterisk: read with ","
\* as the only delimiter it runs through "*" to the end of the string and no
\* token follows it.  starred marks a checksum that follows an empty last
\* field: read with "," as the only delimiter its text starts with "*".
Tokens(s) ==
    LET n == Len(s.fields)
        items == [i \in 1..(n + 1) |->
                    IF i <= n
                    THEN [empty |-> s.fields[i].empty, atoi |-> s.fields[i].atoi,
                          atof |-> s.fields[i].atof, last |-> i = n, starred |-> FALSE]
                    ELSE [empty |-> FALSE, atoi |-> s.checksum.atoi,
                          atof |-> s.checksum.atof, last |-> FALSE,
                          starred |-> s.fields[n].empty]]
    IN  SelectSeq(items, LAMBDA f : ~f.empty)

\* the k-th strtok(.., ",") of a scan has a token: none before it ran to the end
HasComma(T, k) == k <= Len(T) /\ \A i \in 1..(k - 1) : ~T[i].last

\* atoi() of a token read with "," as the only delimiter
CommaAtoi(tok) == IF tok.starred THEN 0 ELSE tok.atoi

\* the body of the satellite loop of GPS::parseGSVSentence once the four
\* tokens are read: find the slot and fill it
storeVisible(st, prn, elevation, azimuth, snr) ==
    LET byPrn == {i \in 1..st.count : st.satellites[i].prn = prn}
        free == {i \in 1..MAX_SATELLITES : i > Len(st.satellites) \/ ~st.satellites[i].tracked}
        slotIndex == IF byPrn # {} THEN CHOOSE i \in byPrn : \A j \in byPrn : i <= j
                     ELSE IF free # {} THEN CHOOSE i \in free : \A j \in free : i <= j
                     ELSE 0
        sat == [prn |-> prn % 256, constellation |-> 0, elevation |-> elevation % 256,
                azimuth |-> azimuth % 65536, snr |-> snr % 256,
                tracked |-> TRUE, inUse |-> FALSE]
    IN  IF slotIndex = 0 THEN st
        ELSE IF slotIndex > Len(st.satellites)
        THEN [st EXCEPT !.satellites = Append(@, sat), !.count = slotIndex]
        ELSE [st EXCEPT !.satellites[slotIndex] = sat,
                        !.count = IF slotIndex > @ THEN slotIndex ELSE @]

\* GPS::parseGSVSentence, the loop over up to four satellites from satIndex on;
\* the tokens of a satellite are T[k] (prn), T[k+1], T[k+2], read with ",", and
\* T[k+3] (snr), read with ",*"
RECURSIVE gsvSatellites(_, _, _, _)
gsvSatellites(st, T, k, satIndex) ==
    IF satIndex >= 4 THEN st
    ELSE IF k > Len(T) \/ CommaAtoi(T[k]) = 0 THEN st
    ELSE IF T[k].last \/ k + 1 > Len(T) THEN st
    ELSE IF T[k + 1].last \/ k + 2 > Len(T) THEN st
    ELSE IF T[k + 2].last \/ k + 3 > Len(T) THEN st
    ELSE \* the table is computed once per round
         CHOOSE r \in { gsvSatellites(round, T, k + 4, satIndex + 1) :
                          round \in { storeVisible(st, CommaAtoi(T[k]), CommaAtoi(T[k + 1]),
                                                   CommaAtoi(T[k + 2]), T[k + 3].atoi) } } : TRUE

\* GPS::parseGSVSentence (the constellation argument is not used by it)
parseGSVSentence(st, s, t) ==
    LET T == Tokens(s)
    IN  IF ~HasComma(T, 4) THEN st
        ELSE [gsvSatellites(st, T, IF T[4].last THEN Len(T) + 1 ELSE 5, 0)
                 EXCEPT !.lastUpdate = t]

\* GPS::parseGNGSVSentence
parseGNGSVSentence(st, s, t) ==
    IF ~HasComma(Tokens(s), 5) THEN st
    ELSE parseGSVSentence(st, s, t)

\* GPS::markSatellitesInUse, one identifier of the in-use list
markInUse(st, prn, constellationType) ==
    LET byPrn == {j \in 1..st.count : st.satellites[j].prn = prn}
        first == CHOOSE j \in byPrn : \A k \in byPrn : j <= k
    IN  IF byPrn # {}
        THEN [st EXCEPT !.satellites[first] =
                 [@ EXCEPT !.inUse = TRUE, !.constellation = constellationType,
                           !.tracked = TRUE]]
        ELSE IF st.count < MAX_SATELLITES
        THEN [st EXCEPT !.satellites =
                 Append(@, [prn |-> prn % 256, constellation |-> constellationType,
                            inUse |-> TRUE, tracked |-> TRUE,
                            elevation |-> 0, azimuth |-> 0, snr |-> 0]),
                        !.count = @ + 1]
        ELSE st

\* GPS::markSatellitesInUse, the loop "for (int i = 0; i < 12; i++)" from i on;
\* its tokens are T[k], T[k+1], ..., read with ",*"
RECURSIVE inUseList(_, _, _, _, _)
inUseList(st, T, k, i, constellationType) ==
    IF i >= 12 THEN st
    ELSE \* the table is computed once per round
         CHOOSE r \in { inUseList(round, T, k + 1, i + 1, constellationType) :
                          round \in { IF k > Len(T) \/ T[k].atoi = 0 THEN st
                                      ELSE markInUse(st, T[k].atoi, constellationType) } } : TRUE

\* GPS::markSatellitesInUse: the table and the snapshot it leaves
markSatellitesInUse(st, g, s, constellationType) ==
    LET T == Tokens(s)
        \* talker, mode and fix type are read with ","
        first == IF HasComma(T, 3) /\ ~T[3].last THEN 4 ELSE Len(T) + 1
        dop(k) == IF k <= Len(T) THEN T[k].atof ELSE -1
    IN  IF T = << >> THEN [st |-> st, g |-> g]
        ELSE [st |-> inUseList(st, T, first, 0, constellationType),
              g |-> [g EXCEPT !.fixMode = IF HasComma(T, 3) THEN CommaAtoi(T[3]) % 256 ELSE @,
                              !.pdop = IF dop(first + 12) >= 0 THEN dop(first + 12) ELSE @,
                              !.hdop = IF dop(first + 13) >= 0 THEN dop(first + 13) ELSE @,
                              !.vdop = IF dop(first + 14) >= 0 THEN dop(first + 14) ELSE @]]

\* GPS::parseGNGSASentence; the system id is the text between the last comma
\* and the asterisk
parseGNGSASentence(st, g, s) ==
    LET systemId == s.fields[Len(s.fields)].atoi
        cleared == [st EXCEPT !.satellites =
                       [i \in 1..Len(@) |-> IF i <= st.count
                                            THEN [@[i] EXCEPT !.inUse = FALSE]
                                            ELSE @[i]]]
    IN  IF systemId < 1 \/ systemId > 6 THEN [st |-> st, g |-> g]
        ELSE markSatellitesInUse(IF systemId = 1 THEN cleared ELSE st, g, s, systemId)

\* GPS::parseNMEASentence, the routing to the parsers of the satellite table
\* (the detection of the module's capabilities is left out)
parseNMEASentence(st, g, s, t) ==
    IF s.talker = "GPGSV"
    THEN [st |-> parseGSVSentence(st, s, t), g |-> [g EXCEPT !.lastValidSentence = "GPGSV"]]
    ELSE IF s.talker = "GNGSV"
    THEN [st |-> parseGNGSVSentence(st, s, t), g |-> [g EXCEPT !.lastValidSentence = "GNGSV"]]
    ELSE IF s.talker = "GNGSA"
    THEN LET r == parseGNGSASentence(st, g, s)
         IN  [st |-> r.st, g |-> [r.g EXCEPT !.lastValidSentence = "GNGSA"]]
    ELSE [st |-> st, g |-> g]

----------------------------------------------------------------------------
(* Sentences the receiver sends                                            *)

RECURSIVE Ascending(_)
Ascending(S) ==
    IF S = {} THEN << >>
    ELSE LET m == CHOOSE x \in S : \A y \in S : x <= y
         IN  <<m>> \o Ascending(S \ {m})

RECURSIVE VisibleFields(_, _)
VisibleFields(ids, snr) ==
    IF ids = << >> THEN << >>
    ELSE <<F(Head(ids)), F(45), F(120), F(snr)>> \o VisibleFields(Tail(ids), snr)

\* what atoi() makes of the two hex digits of a checksum: "A7" and "3F"
Checksums == {W, F(3)}

\* the identifiers visibility sentences list, those partly filled in-use
\* sentences list, and the twelve of an in-use sentence without empty fields
VisibleIds == {5, 7}
ListedIds == {5, 9}
FullList == {1, 2, 3, 4, 5, 6, 7, 8, 9, 10, 11, 12}
DopTriples == { <<25, 13, 21>> }       \* PDOP 2.5, HDOP 1.3, VDOP 2.1

\* $GxGSV,1,1,n,prn,elevation,azimuth,snr,...*hh
GSVSentence(tk, ids, snr, cs) ==
    [talker |-> tk,
     fields |-> <<W, F(1), F(1), F(Cardinality(ids))>> \o VisibleFields(Ascending(ids), snr),
     checksum |-> cs]

GSVSentences ==
    { GSVSentence(tk, ids, 30, cs) :
         tk \in {"GPGSV", "GNGSV"},
         ids \in (SUBSET VisibleIds) \ {{}},
         cs \in Checksums }

\* $GNGSA,A,3,id,...(12 positions)...,pdop,hdop,vdop,systemId*hh
GSASentence(ids, dops, systemId, cs) ==
    [talker |-> "GNGSA",
     fields |-> <<W, W, F(3)>>
                \o [i \in 1..12 |-> IF i <= Cardinality(ids) THEN F(Ascending(ids)[i]) ELSE E]
                \o <<D(dops[1]), D(dops[2]), D(dops[3]), F(systemId)>>,
     checksum |-> cs,
     listed |-> ids]

GSASentences ==
    { GSASentence(ids, dops, systemId, cs) :
         ids \in (SUBSET ListedIds) \cup {FullList},
         dops \in DopTriples,
         systemId \in {1, 2},
         cs \in Checksums }

\* a visibility sentence arrives
ReceiveGSV ==
    /\ parsed.count < MaxSentences
    /\ \E s \in GSVSentences :
          LET r == parseNMEASentence(satTracking, gpsData, s, now)
          IN  /\ satTracking' = r.st
              /\ gpsData' = r.g
              /\ parsed' = [kind |-> "GSV", systemId |-> 0, listed |-> {},
                            count |-> parsed.count + 1]
    /\ UNCHANGED <<now, ntp, passLog, lastServed, delivered, gpsRest>>

\* a combined in-use sentence arrives
ReceiveGNGSA ==
    /\ parsed.count < MaxSentences
    /\ \E s \in GSASentences :
          LET r == parseNMEASentence(satTracking, gpsData,
                                     [talker |-> s.talker, fields |-> s.fields,
                                      checksum |-> s.checksum], now)
          IN  /\ satTracking' = r.st
              /\ gpsData' = r.g
              /\ parsed' = [kind |-> "GNGSA", systemId |-> s.fields[Len(s.fields)].atoi,
                            listed |-> s.listed, count |-> parsed.count + 1]
    /\ UNCHANGED <<now, ntp, passLog, lastServed, delivered, gpsRest>>

NextGPS == ReceiveGSV \/ ReceiveGNGSA

SpecGPS == Init /\ [][NextGPS]_vars

\* A sky with more satellites than the table has slots
MaxFillSentences == 4      \* sentences the receiver sends in these runs

\* the in-use sentences, each listing twelve identifiers, and the visibility
\* sentences: two satellites not listed by them, a satellite with a three-digit
\* identifier above 255, and "$GPGSV,1,1,2,06,45,120,,07,45,120,30*hh", where
\* the group of satellite 6 has an empty SNR field
FillSentences ==
    { GSASentence(ids, <<25, 13, 21>>, 2, W) :
         ids \in { 1..12, 13..24, 25..36 } }
      \cup { GSVSentence("GPGSV", {40, 41}, 30, W) @@ [listed |-> {40, 41}],
              GSVSentence("GNGSV", {302}, 30, W) @@ [listed |-> {302}],
              [talker |-> "GPGSV",
               fields |-> <<W, F(1), F(1), F(2), F(6), F(45), F(120), E,
                            F(7), F(45), F(120), F(30)>>,
               checksum |-> W,
               listed |-> {6, 7}] }

\* a sentence of this sky arrives
ReceiveFill ==
    /\ parsed.count < MaxFillSentences
    /\ \E s \in FillSentences :
          LET r == parseNMEASentence(satTracking, gpsData,
                                     [talker |-> s.talker, fields |-> s.fields,
                                      checksum |-> s.checksum], now)
          IN  /\ satTracking' = r.st
              /\ gpsData' = r.g
              /\ parsed' = [kind |-> IF s.talker = "GNGSA" THEN "GNGSA" ELSE "GSV",
                            systemId |-> IF s.talker = "GNGSA"
                                         THEN s.fields[Len(s.fields)].atoi ELSE 0,
                            listed |-> s.listed, count |-> parsed.count + 1]
    /\ UNCHANGED <<now, ntp, passLog, lastServed, delivered, gpsRest>>

SpecFill == Init /\ [][ReceiveFill]_vars

----------------------------------------------------------------------------
(* The processing cycle of the receiver, GPS::process()                    *)
(*                                                                         *)
(* o is the GPS object: [gpsData, satTracking, history, eventLog, health,  *)
(* watchdog].  tiny is what the TinyGPS++ decoder reports once the bytes of *)
(* the cycle are fed to it.  An average of signal strengths (float in the  *)
(* source) is the exact fraction [sum, count]; 0 is [sum |-> 0, count |-> 1]. *)

\* struct AlertThresholds, its default member initialisers (HDOP, PDOP in tenths)
thresholds ==
    [minSatellites |-> 4, maxHDOP |-> 50, maxPDOP |-> 80, maxFixAge |-> 60000,
     minUptime |-> 300000, minAvgSNR |-> 25]

\* printf("%.1f") of a value in tenths
OneDecimal(tenths) == ToString(tenths \div 10) \o "." \o ToString(tenths % 10)

\* GPS::shouldFireEvent: the answer and the object it leaves
shouldFireEvent(o, type, t) ==
    IF t - o.watchdog.lastEventTime[type] < EVENT_COOLDOWN
    THEN [ok |-> FALSE, o |-> o]
    ELSE [ok |-> TRUE, o |-> [o EXCEPT !.watchdog.lastEventTime[type] = t]]

\* "if (cond && shouldFireEvent(type)) addEvent(type, message);"
gatedEvent(o, cond, type, message, t) ==
    IF ~cond THEN o
    ELSE Bind(shouldFireEvent(o, type, t),
              LAMBDA r : IF r.ok
                         THEN [r.o EXCEPT !.eventLog = addEvent(@, type, message, t)]
                         ELSE r.o)

\* GPS::process, the loop over the bytes: the watchdog flag is left as it is
readSerial_KeepsFlag(o, rx, t) ==
    IF rx.kind = "none" THEN o
    ELSE LET o1 == [o EXCEPT !.watchdog.lastCharReceived = t]
         IN  IF rx.kind # "sentence" THEN o1
             ELSE Bind(parseNMEASentence(o.satTracking, o.gpsData, rx.sentence, t),
                       LAMBDA r : [o1 EXCEPT !.satTracking = r.st, !.gpsData = r.g])

\* GPS::process, the loop over the bytes waiting in the serial port: rx.kind is
\* "none" (no byte), "bytes" (bytes that complete no sentence), "byte" (the one
\* byte rx.byte of a line that names no sentence of the satellite table) or
\* "sentence" (the bytes of rx.sentence)
readSerial(o, rx, t) ==
    IF rx.kind = "none" THEN o
    ELSE LET o1 == [o EXCEPT !.watchdog.lastCharReceived = t,
                             !.watchdog.unresponsive = FALSE,
                             !.eventLog = IF o.watchdog.unresponsive
                                          THEN addEvent(@, "EVENT_SYSTEM_BOOT",
                                                        "GPS module recovered", t)
                                          ELSE @]
         IN  IF rx.kind # "sentence" THEN o1
             ELSE Bind(parseNMEASentence(o.satTracking, o.gpsData, rx.sentence, t),
                       LAMBDA r : [o1 EXCEPT !.satTracking = r.st, !.gpsData = r.g])

\* GPS::process, one iteration of the loop over the waiting bytes as far as
\* the line buffer goes, c being the byte read ("\n" is the line end): the
\* buffer it leaves, whether the line was given to parseNMEASentence (as
\* sentence), and whether the byte overflowed the buffer
lineByte(buffer, c) ==
    LET full == ~(Len(buffer) < GPS_BUFFER_MAX)
        b == IF c = "$" THEN <<"$">>
             ELSE IF c = "\n" THEN buffer
             ELSE IF ~full THEN Append(buffer, c)
             ELSE << >>
        gpsLineReady == c = "\n"
    IN  [gpsBuffer |-> IF gpsLineReady THEN << >> ELSE b,
         ready |-> gpsLineReady,
         sentence |-> IF gpsLineReady THEN b ELSE << >>,
         overflow |-> c # "$" /\ c # "\n" /\ full]

\* GPS::updateFixQuality
updateFixQuality(g) ==
    [g EXCEPT !.fixQuality =
        IF ~g.valid /\ ~g.timeValid THEN 0
        ELSE IF g.valid /\ g.hdop <= 20 /\ g.satellites >= 8 /\ g.fixMode = 3 THEN 3
        ELSE IF g.valid /\ g.hdop <= 50 /\ g.satellites >= 6 THEN 2
        ELSE IF g.valid /\ g.satellites >= 4 THEN 1
        ELSE 0]

\* GPS::updateGPSData, the time block (the date arithmetic that makes unixTime
\* from the decoder's calendar fields is not part of the model: tiny.unixTime
\* is its result)
updateTime(o, tiny, t) ==
    IF tiny.timeValid
    THEN gatedEvent([o EXCEPT !.gpsData.timeValid = TRUE,
                              !.gpsData.centisecond = tiny.centisecond,
                              !.gpsData.lockAcquiredFraction =
                                  IF ~o.gpsData.timeValid THEN tiny.centisecond ELSE @,
                              !.gpsData.unixTime = tiny.unixTime,
                              !.gpsData.lastUpdateMillis = t],
                    ~o.gpsData.timeValid, "EVENT_GPS_FIX_ACQUIRED", "GPS time acquired", t)
    ELSE [o EXCEPT !.gpsData.timeValid = FALSE]

\* GPS::updateGPSData, the position block
updatePosition(o, tiny, t) ==
    IF tiny.locationValid
    THEN gatedEvent([o EXCEPT !.gpsData.valid = TRUE, !.gpsData.lastUpdateMillis = t],
                    ~o.gpsData.valid, "EVENT_GPS_FIX_ACQUIRED",
                    "GPS position fix acquired", t)
    ELSE Bind(gatedEvent(o, o.gpsData.valid, "EVENT_GPS_FIX_LOST",
                         "GPS position fix lost", t),
              LAMBDA a : [a EXCEPT !.gpsData.valid = FALSE])

\* GPS::updateGPSData, "gpsData.satellites = satTracking.totalInUse" and the
\* low-count event
updateSatellites(o, t) ==
    gatedEvent([o EXCEPT !.gpsData.satellites = o.satTracking.totalInUse],
               o.satTracking.totalInUse < thresholds.minSatellites,
               "EVENT_LOW_SATELLITE_COUNT",
               "Low satellite count: " \o ToString(o.satTracking.totalInUse), t)

\* GPS::updateGPSData, the HDOP of the decoder and the two DOP events
updateDops(o, tiny, t) ==
    Bind(IF tiny.hdopValid
         THEN gatedEvent([o EXCEPT !.gpsData.hdop = tiny.hdop],
                         tiny.hdop > thresholds.maxHDOP, "EVENT_HIGH_HDOP",
                         "High HDOP: " \o OneDecimal(tiny.hdop), t)
         ELSE o,
         LAMBDA a : gatedEvent(a, a.gpsData.pdop > thresholds.maxPDOP, "EVENT_HIGH_PDOP",
                               "High PDOP: " \o OneDecimal(a.gpsData.pdop), t))

\* GPS::updateGPSData
updateGPSData(o, tiny, t) ==
    Bind(Bind(Bind(Bind(updateTime(o, tiny, t),
                        LAMBDA a : updatePosition(a, tiny, t)),
                   LAMBDA b : updateSatellites(b, t)),
              LAMBDA c : updateDops(c, tiny, t)),
         LAMBDA d : [d EXCEPT !.gpsData =
                        [updateFixQuality(d.gpsData) EXCEPT !.updateAge =
                            IF d.gpsData.lastUpdateMillis > 0
                            THEN t - d.gpsData.lastUpdateMillis ELSE @]])

\* the entries of the table that count as in use: tracked && inUse
InUseEntries(st) ==
    {i \in 1..st.count : st.satellites[i].tracked /\ st.satellites[i].inUse}

\* GPS::updateConstellationCounts
updateConstellationCounts(st) ==
    LET of(c) == Cardinality({i \in InUseEntries(st) : st.satellites[i].constellation = c})
    IN  [st EXCEPT !.gpsCount = of(1), !.glonassCount = of(2), !.galileoCount = of(3),
                   !.beidouCount = of(4), !.qzssCount = of(5),
                   !.totalInUse = Cardinality(InUseEntries(st))]

RECURSIVE SumSnr(_, _)
SumSnr(st, S) ==
    IF S = {} THEN 0
    ELSE LET i == CHOOSE x \in S : TRUE
         IN  st.satellites[i].snr + SumSnr(st, S \ {i})

\* GPS::getAverageSNR(0), and the same loop in GPS::addHistoricalPoint
getAverageSNR(st) ==
    LET S == {i \in 1..st.count : st.satellites[i].tracked /\ st.satellites[i].snr # 0}
    IN  IF S = {} THEN [sum |-> 0, count |-> 1]
        ELSE [sum |-> SumSnr(st, S), count |-> Cardinality(S)]

\* GPS::addHistoricalPoint; a slot of the ring never written is absent
addHistoricalPoint_NoWrap(o, t) ==
    IF t - o.history.lastRecordTime < HISTORY_INTERVAL THEN o
    ELSE [o EXCEPT !.history.points = Append(@, [timestamp |-> t]),
                   !.history.head = @ + 1,
                   !.history.count = @ + 1,
                   !.history.lastRecordTime = t]

addHistoricalPoint(o, t) ==
    IF t - o.history.lastRecordTime < HISTORY_INTERVAL THEN o
    ELSE LET point == [timestamp |-> t,
                       satelliteCount |-> o.gpsData.satellites % 256,
                       hdop |-> o.gpsData.hdop,
                       pdop |-> o.gpsData.pdop,
                       fixQuality |-> o.gpsData.fixQuality,
                       fixMode |-> o.gpsData.fixMode,
                       hasValidFix |-> o.gpsData.valid,
                       avgSNR |-> getAverageSNR(o.satTracking)]
         IN  [o EXCEPT !.history.points =
                           IF o.history.head + 1 > Len(@) THEN Append(@, point)
                           ELSE [@ EXCEPT ![o.history.head + 1] = point],
                       !.history.head = (@ + 1) % HISTORY_BUFFER_SIZE,
                       !.history.count = IF @ < HISTORY_BUFFER_SIZE THEN @ + 1 ELSE @,
                       !.history.lastRecordTime = t]

\* GPS::checkStaleness
checkStaleness(o, t) ==
    IF o.gpsData.updateAge > GPS_DATA_TIMEOUT
    THEN Bind(gatedEvent(o, o.gpsData.valid \/ o.gpsData.timeValid,
                         "EVENT_GPS_TIMEOUT", "GPS data timeout", t),
              LAMBDA a : [a EXCEPT !.gpsData.valid = FALSE, !.gpsData.timeValid = FALSE])
    ELSE o

\* GPS::checkHeartbeat
checkHeartbeat(o, t) ==
    IF t - o.watchdog.lastCharReceived > GPS_HEARTBEAT_TIMEOUT /\ ~o.watchdog.unresponsive
    THEN Bind(shouldFireEvent(o, "EVENT_GPS_UNRESPONSIVE", t),
              LAMBDA r : IF r.ok
                         THEN [r.o EXCEPT !.eventLog =
                                              addEvent(@, "EVENT_GPS_UNRESPONSIVE",
                                                       "GPS module not responding", t),
                                          !.watchdog.unresponsive = TRUE]
                         ELSE r.o)
    ELSE o

\* GPS::calculateSatelliteScore
calculateSatelliteScore(sats) ==
    IF sats >= 12 THEN 100
    ELSE IF sats >= 8 THEN 80
    ELSE IF sats >= 6 THEN 60
    ELSE IF sats >= 4 THEN 40
    ELSE IF sats >= 1 THEN 20
    ELSE 0

\* GPS::calculateHDOPScore (hdop in tenths)
calculateHDOPScore(hdop) ==
    IF hdop = 0 THEN 0
    ELSE IF hdop <= 10 THEN 100
    ELSE IF hdop <= 20 THEN 80
    ELSE IF hdop <= 50 THEN 60
    ELSE IF hdop <= 100 THEN 40
    ELSE IF hdop <= 200 THEN 20
    ELSE 10

\* GPS::calculateSNRScore
calculateSNRScore(avgSNR) ==
    IF avgSNR.sum = 0 THEN 0
    ELSE IF avgSNR.sum >= 40 * avgSNR.count THEN 100
    ELSE IF avgSNR.sum >= 35 * avgSNR.count THEN 80
    ELSE IF avgSNR.sum >= 30 * avgSNR.count THEN 60
    ELSE IF avgSNR.sum >= 25 * avgSNR.count THEN 40
    ELSE IF avgSNR.sum >= 20 * avgSNR.count THEN 20
    ELSE 10

\* GPS::calculateFixAgeScore
calculateFixAgeScore_Inclusive(age) ==
    IF age <= 1000 THEN 100
    ELSE IF age <= 2000 THEN 80
    ELSE IF age <= 5000 THEN 60
    ELSE IF age <= 10000 THEN 40
    ELSE IF age <= 30000 THEN 20
    ELSE 0

calculateFixAgeScore(age) ==
    IF age < 1000 THEN 100
    ELSE IF age < 2000 THEN 80
    ELSE IF age < 5000 THEN 60
    ELSE IF age < 10000 THEN 40
    ELSE IF age < 30000 THEN 20
    ELSE 0

\* GPS::calculateFixModeScore
calculateFixModeScore(fixMode) ==
    IF fixMode = 3 THEN 100
    ELSE IF fixMode = 2 THEN 60
    ELSE 0

\* GPS::calculateHealth, the weighted average stored in the uint8_t gpsScore
gpsScore_PlainSum(satelliteScore, hdopScore, snrScore, fixAgeScore, fixModeScore) ==
    ((satelliteScore + hdopScore + snrScore + fixAgeScore + fixModeScore) \div 5) % 256

gpsScore(satelliteScore, hdopScore, snrScore, fixAgeScore, fixModeScore) ==
    ((satelliteScore * HEALTH_WEIGHT_SATELLITES + hdopScore * HEALTH_WEIGHT_HDOP
        + snrScore * HEALTH_WEIGHT_SNR + fixAgeScore * HEALTH_WEIGHT_FIX_AGE
        + fixModeScore * HEALTH_WEIGHT_FIX_MODE) \div 100) % 256

\* the message of the low-signal alert: printf("%.1f dB") of the average
SignalMessage(avgSNR) ==
    "Low signal strength: "
      \o OneDecimal((((avgSNR.sum * 100) \div avgSNR.count) + 5) \div 10) \o " dB"

\* variant: alerts are raised during the startup period too
updateAlerts_NoGrace(o, t) ==
    LET alert(critical, warning, message) ==
            [o.health EXCEPT !.criticalAlert = critical, !.warningAlert = warning,
                             !.alertMessage = message]
        avgSNR == getAverageSNR(o.satTracking)
    IN  IF o.watchdog.unresponsive
        THEN alert(TRUE, FALSE, "GPS module unresponsive")
        ELSE IF ~o.gpsData.timeValid /\ ~o.gpsData.valid
        THEN alert(TRUE, FALSE, "No GPS fix")
        ELSE IF o.gpsData.updateAge > GPS_DATA_TIMEOUT
        THEN alert(TRUE, FALSE, "GPS data timeout")
        ELSE IF o.gpsData.satellites < thresholds.minSatellites
        THEN alert(FALSE, TRUE, "Low satellite count: " \o ToString(o.gpsData.satellites))
        ELSE IF o.gpsData.hdop > thresholds.maxHDOP
        THEN alert(FALSE, TRUE, "High HDOP: " \o OneDecimal(o.gpsData.hdop))
        ELSE IF o.gpsData.pdop > thresholds.maxPDOP
        THEN alert(FALSE, TRUE, "High PDOP: " \o OneDecimal(o.gpsData.pdop))
        ELSE IF avgSNR.sum > 0 /\ avgSNR.sum < thresholds.minAvgSNR * avgSNR.count
        THEN alert(FALSE, TRUE, SignalMessage(avgSNR))
        ELSE alert(FALSE, FALSE, "")

\* GPS::updateAlerts
updateAlerts_WarningsFirst(o, t) ==
    IF t < thresholds.minUptime THEN o.health
    ELSE IF o.gpsData.satellites < thresholds.minSatellites
    THEN [o.health EXCEPT !.criticalAlert = FALSE, !.warningAlert = TRUE,
                          !.alertMessage = "Low satellite count: "
                                             \o ToString(o.gpsData.satellites)]
    ELSE IF o.watchdog.unresponsive
    THEN [o.health EXCEPT !.criticalAlert = TRUE, !.warningAlert = FALSE,
                          !.alertMessage = "GPS module unresponsive"]
    ELSE [o.health EXCEPT !.criticalAlert = FALSE, !.warningAlert = FALSE,
                          !.alertMessage = ""]

updateAlerts(o, t) ==
    LET alert(critical, warning, message) ==
            [o.health EXCEPT !.criticalAlert = critical, !.warningAlert = warning,
                             !.alertMessage = message]
        avgSNR == getAverageSNR(o.satTracking)
    IN  IF t < thresholds.minUptime THEN o.health
        ELSE IF o.watchdog.unresponsive
        THEN alert(TRUE, FALSE, "GPS module unresponsive")
        ELSE IF ~o.gpsData.timeValid /\ ~o.gpsData.valid
        THEN alert(TRUE, FALSE, "No GPS fix")
        ELSE IF o.gpsData.updateAge > GPS_DATA_TIMEOUT
        THEN alert(TRUE, FALSE, "GPS data timeout")
        ELSE IF o.gpsData.satellites < thresholds.minSatellites
        THEN alert(FALSE, TRUE, "Low satellite count: " \o ToString(o.gpsData.satellites))
        ELSE IF o.gpsData.hdop > thresholds.maxHDOP
        THEN alert(FALSE, TRUE, "High HDOP: " \o OneDecimal(o.gpsData.hdop))
        ELSE IF o.gpsData.pdop > thresholds.maxPDOP
        THEN alert(FALSE, TRUE, "High PDOP: " \o OneDecimal(o.gpsData.pdop))
        ELSE IF avgSNR.sum > 0 /\ avgSNR.sum < thresholds.minAvgSNR * avgSNR.count
        THEN alert(FALSE, TRUE, SignalMessage(avgSNR))
        ELSE alert(FALSE, FALSE, "")

\* GPS::calculateHealth
calculateHealth(o, t) ==
    Bind([o EXCEPT !.health.satelliteScore = calculateSatelliteScore(o.gpsData.satellites),
                   !.health.hdopScore = calculateHDOPScore(o.gpsData.hdop),
                   !.health.snrScore = calculateSNRScore(getAverageSNR(o.satTracking)),
                   !.health.fixAgeScore = calculateFixAgeScore(o.gpsData.updateAge),
                   !.health.fixModeScore = calculateFixModeScore(o.gpsData.fixMode)],
         LAMBDA a :
            Bind([a EXCEPT !.health.gpsScore =
                             gpsScore(a.health.satelliteScore, a.health.hdopScore,
                                      a.health.snrScore, a.health.fixAgeScore,
                                      a.health.fixModeScore)],
                 LAMBDA b : [b EXCEPT !.health =
                                [updateAlerts([b EXCEPT !.health.overallScore =
                                                            b.health.gpsScore], t)
                                    EXCEPT !.overallScore = b.health.gpsScore,
                                           !.lastCalculation = t]]))

\* GPS::process
gpsProcess(o, rx, tiny, t) ==
    Bind(Bind(Bind(Bind(Bind(Bind(readSerial(o, rx, t),
                                  LAMBDA a : updateGPSData(a, tiny, t)),
                             LAMBDA b : [b EXCEPT !.satTracking =
                                                     updateConstellationCounts(@)]),
                        LAMBDA c : addHistoricalPoint(c, t)),
                   LAMBDA d : checkStaleness(d, t)),
              LAMBDA e : checkHeartbeat(e, t)),
         LAMBDA f : calculateHealth(f, t))

----------------------------------------------------------------------------
(* Processing cycles                                                       *)

MaxUptime == 372000         \* the clock of the health runs stops here
MaxHistoryTime == 641000    \* the clock of the sampling runs stops here

\* the GPS object of the state
GpsObject ==
    [gpsData |-> gpsData, satTracking |-> satTracking, history |-> history,
     eventLog |-> eventLog, health |-> health, watchdog |-> watchdog]

\* what the decoder reports once it is fed the bytes of a cycle: nothing
\* valid, a fix with HDOP 0.8, a fix with HDOP 6.0
TinySnapshots ==
    { NoFix }
      \cup { [timeValid |-> TRUE, locationValid |-> TRUE, hdopValid |-> TRUE, hdop |-> h,
               unixTime |-> 1700000000, centisecond |-> 50] : h \in {8, 60} }

\* the sentences of the health runs: two satellites seen weakly or strongly,
\* twelve in use with a PDOP of 2.5 or 9.0
HealthSentences ==
    { [talker |-> s.talker, fields |-> s.fields, checksum |-> s.checksum,
       listed |-> {}] :
          s \in { GSVSentence("GPGSV", VisibleIds, snr, W) : snr \in {20, 42} } }
    \cup { GSASentence(FullList, <<pdop, 13, 21>>, 1, W) : pdop \in {25, 90} }

\* one call of GPS::process() at clock reading t, tiny being the decoder once
\* the bytes are fed to it
Cycle(t, rx, tiny) ==
    /\ t > now
    /\ now' = t
    /\ tinyGPS' = tiny
    /\ \E r \in { gpsProcess(GpsObject, rx, tiny, t) } :
          /\ gpsData' = r.gpsData
          /\ satTracking' = r.satTracking
          /\ history' = r.history
          /\ eventLog' = r.eventLog
          /\ health' = r.health
          /\ watchdog' = r.watchdog
    /\ received' = rx.kind
    /\ parsed' = IF rx.kind = "sentence"
                 THEN [kind |-> IF rx.sentence.talker = "GNGSA" THEN "GNGSA" ELSE "GSV",
                       systemId |-> rx.sentence.fields[Len(rx.sentence.fields)].atoi,
                       listed |-> rx.sentence.listed,
                       count |-> parsed.count + 1]
                 ELSE parsed
    /\ IF rx.kind = "byte"
       THEN \E l \in { lineByte(gpsBuffer, rx.byte) } :
               /\ gpsBuffer' = l.gpsBuffer
               /\ lineLog' = [ready |-> l.ready, sentence |-> l.sentence,
                              overflowed |-> IF rx.byte = "$" THEN FALSE
                                             ELSE l.overflow \/ lineLog.overflowed]
       ELSE UNCHANGED <<gpsBuffer, lineLog>>
    /\ delivered' = NotCalled
    /\ UNCHANGED <<ntp, passLog, lastServed>>

\* the clock readings of the cycles of a health run
HealthTimes == {t \in {12000, 301000, 312000, 330000, 372000} : t <= MaxUptime}

\* a cycle that finds no byte in the serial port
QuietCycle ==
    \E t \in HealthTimes : Cycle(t, [kind |-> "none"], tinyGPS)

\* a cycle that reads bytes that complete no sentence of the satellite table
BytesCycle ==
    \E t \in HealthTimes, tiny \in TinySnapshots : Cycle(t, [kind |-> "bytes"], tiny)

\* a cycle that reads the bytes of one sentence of the satellite table (the
\* decoder takes nothing from these)
SentenceCycle ==
    /\ parsed.count < MaxSentences
    /\ \E t \in HealthTimes, s \in HealthSentences :
          Cycle(t, [kind |-> "sentence", sentence |-> s], tinyGPS)

NextHealth == QuietCycle \/ BytesCycle \/ SentenceCycle

SpecHealth == Init /\ [][NextHealth]_vars

\* The sampling runs: the module keeps sending bytes and has no fix; the
\* cycles are 5 s apart during the first minute and 5 s or 10 s apart later on
\* a 10 s grid.
HistoryTimes ==
    { 1000 + 5000 * k : k \in 1..12 }
      \cup { t \in { 1000 + 10000 * k : k \in 1..70 } : t <= MaxHistoryTime }

HistoryCycle ==
    \E t \in HistoryTimes : t <= now + 10000 /\ Cycle(t, [kind |-> "bytes"], NoFix)

NextHistory == HistoryCycle

SpecHistory == Init /\ [][NextHistory]_vars

\* The line runs: every millisecond a cycle finds one byte waiting, the start
\* of a line, its end, or any other byte
MaxLineTime == 1130        \* the clock of the line runs stops here

SerialBytes == {"$", "\n", "x"}

ReadByte ==
    /\ now < MaxLineTime
    /\ \E c \in SerialBytes : Cycle(now + 1, [kind |-> "byte", byte |-> c], tinyGPS)

SpecLine == Init /\ [][ReadByte]_vars

----------------------------------------------------------------------------
(* The client table over an hour of operation                              *)

MaxTableClients == 2       \* config.maxClients given to begin()
MaxTableRequests == 4      \* datagrams delivered to the server
MaxTableTime == 3906000    \* the clock stops advancing here

\* begin() with per-client limiting on, broadcast off and a table of
\* MaxTableClients entries
InitTable ==
    /\ now = 1000
    /\ gpsData = ZeroGPSData
    /\ satTracking = EmptySatTracking
    /\ \E cfg \in Configs :
          /\ cfg.rateLimitEnabled
          /\ ntp = begin([cfg EXCEPT !.maxClients = MaxTableClients], 0)
    /\ passLog = << >>
    /\ lastServed = [a \in Addresses |-> -1]
    /\ delivered = NotCalled
    /\ parsed = NothingParsed
    /\ history = beginHistory
    /\ eventLog = beginEventLog(500)
    /\ health = beginHealth
    /\ watchdog = beginWatchdog(0)
    /\ tinyGPS = NoFix
    /\ received = NotRun
    /\ gpsBuffer = << >>                  \* gpsBuffer = "" in begin()
    /\ lineLog = NoLine

\* the clock readings at which the main loop runs: three in the first seconds,
\* one after the first sweep is due, and three around the time at which the
\* entries of the first minutes are an hour old
TableTimes ==
    {t \in {2000, 3100, 4200, 302000, 3605000, 3903000, 3906000} : t <= MaxTableTime}

\* the snapshot of a receiver that holds a good fix, refreshed at clock reading t
GoodSnapshot(t) ==
    [ZeroGPSData EXCEPT !.timeValid = TRUE, !.satellites = 4, !.hdop = 100,
                        !.updateAge = 0, !.pdop = 15, !.unixTime = 1700000000,
                        !.centisecond = 50, !.lockAcquiredFraction = 50,
                        !.lastUpdateMillis = t]

\* the well-formed requests of the addresses
TableRequests ==
    { [size |-> NTP_PACKET_SIZE, ip |-> a, pkt |-> V4Request] : a \in Addresses }

\* one iteration of the main loop at clock reading t: GPS::process() leaves the
\* snapshot g, then NTP::process() finds datagram d in the socket
TableLoop(t, g, d) ==
    /\ t >= now
    /\ ntp.config.enabled
    /\ now' = t
    /\ gpsData' = g
    /\ ntp' = process([ntp EXCEPT !.sent = << >>], g, d, t)
    /\ delivered' = d
    /\ passLog' = IF d.size = NTP_PACKET_SIZE /\ checkGlobalRateLimit(ntp, t).ok
                  THEN Append(SelectSeq(passLog, LAMBDA x : t - x <= 1000), t)
                  ELSE passLog
    /\ lastServed' = IF NormalReplyTo(handleNTPRequests([ntp EXCEPT !.sent = << >>],
                                                        g, d, t), d.ip)
                     THEN [lastServed EXCEPT ![d.ip] = t]
                     ELSE lastServed
    /\ UNCHANGED <<satTracking, parsed, gpsRest>>

\* a well-formed request from one of the addresses is waiting
TableRequest ==
    /\ Requests(ntp) < MaxTableRequests
    /\ \E t \in TableTimes, d \in TableRequests :
          \E g \in {GoodSnapshot(t)} : TableLoop(t, g, d)

\* nothing is waiting
TableIdle ==
    \E t \in TableTimes, d \in {NoDatagram} :
       \E g \in {GoodSnapshot(t)} : TableLoop(t, g, d)

NextTable == TableRequest \/ TableIdle

SpecTable == InitTable /\ [][NextTable]_vars

----------------------------------------------------------------------------
(* Replies and broadcasts under snapshots of different age                 *)

MaxLeapTime == 5503        \* the clock of these runs stops here
MaxLeapRequests == 2       \* datagrams delivered to the server

\* the clock readings at which the main loop runs
LeapTimes == {t \in {3000, 3501, 4000, 4502, 5503} : t <= MaxLeapTime}

\* the snapshots the server reads at clock reading t: a fix that is fresh, 2000
\* or 2001 ms old, and a snapshot without valid time
LeapSnapshots(t) ==
    { [GoodSnapshot(t) EXCEPT !.updateAge = a, !.lastUpdateMillis = t - a] :
         a \in {0, 2000, 2001} }
      \cup { [GoodSnapshot(t) EXCEPT !.timeValid = FALSE, !.updateAge = 2500,
                                    !.lastUpdateMillis = t - 2500] }

\* what waits in the socket: nothing, or a request of protocol version 4 or 3
LeapDatagrams ==
    { NoDatagram,
      [size |-> NTP_PACKET_SIZE, ip |-> "ipA", pkt |-> V4Request],
      [size |-> NTP_PACKET_SIZE, ip |-> "ipB", pkt |-> V3Request] }

\* one iteration of the main loop
LeapLoop ==
    \E t \in LeapTimes, d \in LeapDatagrams :
       /\ d.size > 0 => Requests(ntp) < MaxLeapRequests
       /\ \E g \in LeapSnapshots(t) : TableLoop(t, g, d)

SpecLeap == Init /\ [][LeapLoop \/ SendBroadcast]_vars

----------------------------------------------------------------------------
(* A client that asks too often                                            *)

MaxBurstRequests == 13     \* datagrams delivered to the server in these runs
MaxBurstTime == 3200       \* the clock of these runs stops here

NTP_DEFAULT_GLOBAL_RATE == 1000

\* begin() with per-client limiting on, the default global ceiling and a client
\* table of one entry
InitBurst ==
    /\ now = 1000
    /\ gpsData = ZeroGPSData
    /\ satTracking = EmptySatTracking
    /\ \E cfg \in Configs :
          /\ cfg.rateLimitEnabled
          /\ ntp = begin([cfg EXCEPT !.globalMaxRequestsPerSec = NTP_DEFAULT_GLOBAL_RATE,
                                     !.maxClients = 1], 0)
    /\ passLog = << >>
    /\ lastServed = [a \in Addresses |-> -1]
    /\ delivered = NotCalled
    /\ parsed = NothingParsed
    /\ history = beginHistory
    /\ eventLog = beginEventLog(500)
    /\ health = beginHealth
    /\ watchdog = beginWatchdog(0)
    /\ tinyGPS = NoFix
    /\ received = NotRun
    /\ gpsBuffer = << >>
    /\ lineLog = NoLine

\* the clock readings at which the main loop runs: a first one, one 100 ms
\* later and one more than perClientMinInterval after the first
BurstTimes == {t \in {2000, 2100, 3200} : t <= MaxBurstTime}

\* a well-formed request of one of two addresses is waiting
BurstRequest ==
    /\ Requests(ntp) < MaxBurstRequests
    /\ \E t \in BurstTimes, d \in {r \in TableRequests : r.ip \in {"ipA", "ipB"}} :
          \E g \in {GoodSnapshot(t)} : TableLoop(t, g, d)

SpecBurst == InitBurst /\ [][BurstRequest]_vars

----------------------------------------------------------------------------
(* A configuration change while the server runs                            *)

\* NTP::updateConfig: the configuration is replaced, the client array is not
updateConfig(n, cfg) == [n EXCEPT !.config = cfg]

\* every slot the client table uses lies inside the array allocated by
\* begin(); the runs end at the first write outside it, after which the
\* behaviour of the program is undefined
InsideArray == clientCount(ntp) <= ntp.allocated

\* the application calls updateConfig() with another table size
UpdateConfig ==
    /\ InsideArray
    /\ \E m \in {1, 2} :
          /\ m # ntp.config.maxClients
          /\ ntp' = updateConfig(ntp, [ntp.config EXCEPT !.maxClients = m])
    /\ delivered' = NotCalled
    /\ UNCHANGED <<now, gpsData, satTracking, passLog, lastServed, parsed, gpsRest>>

SpecConfig == InitBurst /\ [][(InsideArray /\ BurstRequest) \/ UpdateConfig]_vars

----------------------------------------------------------------------------
(* Calendar time                                                           *)
(*                                                                         *)
(* GPS::updateGPSData makes unixTime from the calendar fields of the       *)
(* decoder.  In the runs of this section the decoder state carries those   *)
(* fields and the snapshot's unixTime, a uint32_t, is kept as its two      *)
(* 16-bit halves <<high, low>>.                                            *)

MaxCalendarYear == 2105    \* the last year the decoder reports in these runs

\* variant: every fourth year is a leap year
leapYear_EveryFourth(y) == y % 4 = 0

\* bool leapYear = (y % 4 == 0 && y % 100 != 0) || (y % 400 == 0)
leapYear(y) == (y % 4 = 0 /\ y % 100 # 0) \/ (y % 400 = 0)

daysInMonth == <<31, 28, 31, 30, 31, 30, 31, 31, 30, 31, 30, 31>>

\* for (uint16_t y = 1970; y < year; y++) days += leapYear ? 366 : 365: what the
\* loop adds to days, 365 for every year it visits and one more for every
\* leap year among them
yearLoop(year) ==
    LET visited == {y \in 1970..(year - 1) : TRUE}
    IN  365 * Cardinality(visited) + Cardinality({y \in visited : leapYear(y)})

\* for (uint8_t m = 1; m < month; m++) days += daysInMonth[m - 1], one more
\* for the February of a leap year, from m on
RECURSIVE monthLoop(_, _, _)
monthLoop(m, month, year) ==
    IF ~(m < month) THEN 0
    ELSE daysInMonth[m] + (IF m = 2 /\ leapYear(year) THEN 1 ELSE 0)
           + monthLoop(m + 1, month, year)

\* days * 86400UL + hour * 3600UL + minute * 60UL + second in 32-bit unsigned
\* arithmetic; 86400 is 1350 * 64, and a multiplication by 64 moves the low
\* ten bits of a half into place
calendarUnixTime(c) ==
    LET days == yearLoop(c.year) + monthLoop(1, c.month, c.year) + (c.day - 1)
        x == days * 1350
        daySeconds == <<(x \div 1024) % 65536, (x % 1024) * 64>>
    IN  Add32(daySeconds, U32(c.hour * 3600 + c.minute * 60 + c.second))

\* the dates and times of day the decoder reports: first and last days of
\* months around the leap days of 1972, 2000, 2100 and 2104, the last second
\* a signed 32-bit count holds, and the ends of the range
CalendarDates ==
    { c \in [year : {y \in {1970, 1972, 1999, 2000, 2038, 2100, 2104, 2105} :
                          y <= MaxCalendarYear},
              month : {1, 2, 3, 12}, day : {1, 19, 28, 29, 31},
              hour : {0, 3, 23}, minute : {0, 14, 59}, second : {0, 7, 8, 59}] :
        /\ c.day <= daysInMonth[c.month] + (IF c.month = 2 /\ leapYear(c.year) THEN 1 ELSE 0)
        /\ <<c.hour, c.minute>> \in {<<0, 0>>, <<3, 14>>, <<23, 59>>}
        /\ (c.second \in {7, 8}) = (c.minute = 14)
        /\ (c.second = 59) = (c.minute = 59) }

\* a cycle in which the decoder reports a valid date and time: the time block
\* of GPS::updateGPSData
ReadDate ==
    /\ \E c \in CalendarDates :
          /\ tinyGPS' = [timeValid |-> TRUE, locationValid |-> FALSE, hdopValid |-> FALSE,
                         hdop |-> 0, centisecond |-> 0, date |-> c]
          /\ \E u \in { calendarUnixTime(c) } :
                gpsData' = [gpsData EXCEPT !.timeValid = TRUE, !.unixTime = u]
    /\ delivered' = NotCalled
    /\ UNCHANGED <<now, satTracking, ntp, passLog, lastServed, parsed, history, eventLog,
                   health, watchdog, received, gpsBuffer, lineLog>>

SpecCalendar == Init /\ [][ReadDate]_vars

----------------------------------------------------------------------------
(* Vocabulary of the properties                                            *)

\* the step is a process() call
Called == delivered' # NotCalled

\* the server as handleNTPRequests finds it, and as it leaves it
AtEntry == [ntp EXCEPT !.sent = << >>]
Handled == handleNTPRequests(AtEntry, gpsData, delivered', now)

\* the four conditions of the quality gate, on the snapshot the server reads
QualityGate ==
    /\ gpsData.timeValid
    /\ gpsData.satellites >= ntp.config.minSatellites
    /\ gpsData.hdop <= ntp.config.maxHDOP
    /\ gpsData.updateAge <= ntp.config.maxFixAge

\* the per-second ceiling is reached: the window is not over and is full
CeilingReached ==
    /\ now - ntp.globalRateLimit.lastSecondReset <= 1000
    /\ ntp.globalRateLimit.requestsThisSecond >= ntp.config.globalMaxRequestsPerSec

\* a 48-byte request with version 3 or 4, mode 3 and stratum <= 16
WellFormed(d) ==
    /\ d.size = 48
    /\ (d.pkt.flags \div 8) % 8 \in {3, 4}
    /\ d.pkt.flags % 8 = 3
    /\ d.pkt.stratum <= 16

\* the entries of the client table that belong to ip
EntriesOf(n, ip) == {i \in 1..Len(n.clients) : n.clients[i].ip = ip}

\* the source of the request has an entry whose last served request is recent
TooSoon(d) ==
    /\ lastServed[d.ip] >= 0
    /\ now - lastServed[d.ip] < ntp.config.perClientMinInterval

IsDenial(m, ip, code) ==
    /\ m.ip = ip
    /\ m.pkt.stratum = 0
    /\ m.pkt.refId = code

----------------------------------------------------------------------------
(* C1                                                                      *)

\* C1, as stated: a well-formed request that passes the global limit, the
\* quality gate and the per-client limit (it is counted as a valid response)
\* gets one reply, whose originate timestamp (bytes 24-31) equals the request's
\* transmit timestamp (bytes 40-47).
C1_OriginateEchoesTransmit ==
    [][ ( /\ Called
          /\ WellFormed(delivered')
          /\ ~CeilingReached
          /\ QualityGate
          /\ Handled.metrics.validResponses = ntp.metrics.validResponses + 1 )
        => /\ Len(Handled.sent) = 1
           /\ Handled.sent[1].ip = delivered'.ip
           /\ Handled.sent[1].pkt.origTs = delivered'.pkt.xmitTs ]_vars

----------------------------------------------------------------------------
(* C2                                                                      *)

\* C2: a step that sends a datagram which is no Kiss-o'-Death (a normal reply
\* or a broadcast) starts in a state where the four conditions of the quality
\* gate hold.
C2_NormalReplyOnlyWhenGateHolds ==
    [][ ( /\ ntp' # ntp
          /\ \E i \in 1..Len(ntp'.sent) : ntp'.sent[i].pkt.stratum # 0 )
        => QualityGate ]_vars

\* one process() call has answered a client and sent the periodic broadcast
C2_Witness ==
    /\ Len(ntp.sent) = 2
    /\ ntp.sent[1].pkt.flags % 8 = 4 /\ ntp.sent[1].pkt.stratum # 0
    /\ ntp.sent[2].pkt.flags % 8 = 5 /\ ntp.sent[2].ip = "255.255.255.255"
    /\ ntp.metrics.validResponses > 0 /\ ntp.metrics.broadcastsSent > 0

----------------------------------------------------------------------------
(* C3                                                                      *)

----------------------------------------------------------------------------
(* C4                                                                      *)

----------------------------------------------------------------------------
(* C5                                                                      *)

\* C5: every datagram sent by sendKissOfDeath (a step that counts one in
\* kodSent) has stratum 0, zero in all four timestamps (bytes 16-47) and
\* "DENY" or "RATE" as reference identifier, whatever the buffer held before.
C5_DenialIsBlank ==
    [][ ntp'.metrics.kodSent # ntp.metrics.kodSent
        => /\ ntp'.metrics.kodSent = ntp.metrics.kodSent + 1
           /\ Len(ntp'.sent) >= 1
           /\ ntp'.sent[1].pkt.stratum = 0
           /\ ntp'.sent[1].pkt.refTs = ZeroTimestamp
           /\ ntp'.sent[1].pkt.origTs = ZeroTimestamp
           /\ ntp'.sent[1].pkt.recvTs = ZeroTimestamp
           /\ ntp'.sent[1].pkt.xmitTs = ZeroTimestamp
           /\ ntp'.sent[1].pkt.refId \in {"DENY", "RATE"} ]_vars

\* a request with a non-zero transmit timestamp was read into the buffer and
\* then answered with a denial
C5_Witness ==
    /\ delivered.size = 48
    /\ delivered.pkt.xmitTs # ZeroTimestamp
    /\ ntp.metrics.kodSent > 0
    /\ Len(ntp.sent) = 1
    /\ ntp.sent[1].pkt.stratum = 0
    /\ ntp.sent[1].pkt = ntp.packetBuffer

----------------------------------------------------------------------------
(* C6                                                                      *)

\* C6: a datagram whose size is not 48 makes handleNTPRequests send nothing; a
\* size of 0 changes nothing at all, a wrong non-zero size adds one to
\* invalidRequests and changes nothing else.
C6_WrongSizeOnlyCounted ==
    [][ (Called /\ delivered'.size # 48)
        => /\ Handled.sent = << >>
           /\ \A i \in 1..Len(ntp'.sent) : ntp'.sent[i].pkt.flags % 8 = 5
           /\ ntp'.metrics.kodSent = ntp.metrics.kodSent
           /\ ntp'.metrics.validResponses = ntp.metrics.validResponses
           /\ IF delivered'.size = 0
              THEN /\ Handled = AtEntry
                   /\ ntp'.metrics.invalidRequests = ntp.metrics.invalidRequests
              ELSE /\ Handled = [AtEntry EXCEPT !.metrics.invalidRequests = @ + 1]
                   /\ ntp'.metrics.invalidRequests = ntp.metrics.invalidRequests + 1 ]_vars

\* the only datagram so far had 47 bytes: it was counted and not read
C6_Witness ==
    /\ delivered.size = 47
    /\ ntp.metrics.invalidRequests = 1
    /\ Requests(ntp) = 1
    /\ ntp.packetBuffer = ZeroPacket
    /\ ntp.metrics.kodSent = 0

----------------------------------------------------------------------------
(* C7                                                                      *)

----------------------------------------------------------------------------
(* C8                                                                      *)

\* the requests checkGlobalRateLimit let pass in the 1000 ms up to the latest
PassesInLastSecond ==
    {i \in 1..Len(passLog) : passLog[Len(passLog)] - passLog[i] < 1000}

\* the requests it let pass since it last reset its counter
PassesSinceReset ==
    {i \in 1..Len(passLog) : passLog[i] >= ntp.globalRateLimit.lastSecondReset}

\* C8, as stated: in any interval of 1000 ms at most globalMaxRequestsPerSec
\* requests pass checkGlobalRateLimit.
C8_SlidingWindow ==
    Cardinality(PassesInLastSecond) <= ntp.config.globalMaxRequestsPerSec

\* C8, amended: the limiter is a fixed window that restarts at the first
\* request arriving more than 1000 ms after the previous restart; at most
\* globalMaxRequestsPerSec requests pass between two restarts, and so at most
\* twice that number in any interval of 1000 ms.
C8_FixedWindow ==
    /\ Cardinality(PassesSinceReset) = ntp.globalRateLimit.requestsThisSecond
    /\ ntp.globalRateLimit.requestsThisSecond <= ntp.config.globalMaxRequestsPerSec
    /\ Cardinality(PassesInLastSecond) <= 2 * ntp.config.globalMaxRequestsPerSec

\* the window is full and a further request has been dropped at the ceiling
C8_Witness ==
    /\ ntp.globalRateLimit.requestsThisSecond = ntp.config.globalMaxRequestsPerSec
    /\ ntp.globalRateLimit.droppedThisSecond > 0
    /\ Cardinality(PassesSinceReset) = ntp.config.globalMaxRequestsPerSec

----------------------------------------------------------------------------
(* C9                                                                      *)

\* C9: a request dropped at the global ceiling sends no datagram and leaves
\* the client table as it was; a request denied for insufficient quality
\* leaves the client table as it was.
C9_DropsLeaveClientTable ==
    [][ (Called /\ delivered'.size = 48)
        => /\ CeilingReached
                => /\ Handled.sent = << >>
                   /\ Handled.clients = ntp.clients
                   /\ ntp'.clients = ntp.clients
                   /\ ntp'.metrics.uniqueClients = ntp.metrics.uniqueClients
           /\ (~CeilingReached /\ WellFormed(delivered') /\ ~QualityGate)
                => /\ Handled.clients = ntp.clients
                   /\ ntp'.clients = ntp.clients
                   /\ ntp'.metrics.uniqueClients = ntp.metrics.uniqueClients ]_vars

\* with a source in the client table, a request from another source has been
\* dropped at the global ceiling
C9_Witness ==
    /\ delivered.size = 48
    /\ ntp.globalRateLimit.droppedThisSecond > 0
    /\ ntp.sent = << >>
    /\ Len(ntp.clients) > 0
    /\ EntriesOf(ntp, delivered.ip) = {}

----------------------------------------------------------------------------
(* C10                                                                     *)

\* C10, as stated: after visibility sentences and then a combined in-use
\* sentence with system id 1 that lists 0 to 12 identifiers (the other
\* positions empty) and its PDOP, HDOP and VDOP, an entry of the table has
\* inUse set exactly when its identifier is one of those listed.
C10_InUseIffListed ==
    (parsed.kind = "GNGSA" /\ parsed.systemId = 1)
    => \A i \in 1..satTracking.count :
          satTracking.satellites[i].inUse
             <=> satTracking.satellites[i].prn \in parsed.listed

----------------------------------------------------------------------------
(* Claims about the processing cycle                                       *)

\* the state is the end of a GPS::process() cycle
Cycled == received # NotRun

\* C11: at the end of every processing cycle the snapshot's satellites field
\* equals the number of table entries that are tracked and in use, as the
\* cycle recomputed it.
C11_SatellitesIsInUseCount ==
    Cycled => /\ gpsData.satellites = Cardinality(InUseEntries(satTracking))
              /\ gpsData.satellites = satTracking.totalInUse

\* the component scores a calculation can give
ScoreSteps == {0, 10, 20, 40, 60, 80, 100}

\* the weighted sum of the five scores, divided by 100 with integer division
WeightedSum(sat, hdop, snr, age, mode) ==
    (sat * 30 + hdop * 25 + snr * 20 + age * 15 + mode * 10) \div 100

\* for every combination of component scores the stored score is the weighted
\* sum and lies in 0..100; all 0 gives 0 and all 100 gives 100
C12_EveryCombination ==
    /\ \A sat \in ScoreSteps, hdop \in ScoreSteps, snr \in ScoreSteps,
          age \in ScoreSteps, mode \in ScoreSteps :
          /\ gpsScore(sat, hdop, snr, age, mode) = WeightedSum(sat, hdop, snr, age, mode)
          /\ gpsScore(sat, hdop, snr, age, mode) \in 0..100
    /\ gpsScore(0, 0, 0, 0, 0) = 0
    /\ gpsScore(100, 100, 100, 100, 100) = 100

\* C12: after every calculateHealth() the overall score lies in 0..100 and is
\* the weighted sum (30, 25, 20, 15, 10) of the five component scores divided
\* by 100 with integer division, for every combination of component scores.
C12_OverallIsWeightedSum ==
    /\ C12_EveryCombination
    /\ Cycled =>
          /\ health.overallScore \in 0..100
          /\ health.overallScore =
                WeightedSum(health.satelliteScore, health.hdopScore, health.snrScore,
                            health.fixAgeScore, health.fixModeScore)
          /\ {health.satelliteScore, health.hdopScore, health.snrScore,
              health.fixAgeScore, health.fixModeScore} \subseteq ScoreSteps

\* a cycle ended with all five component scores, and the overall score, at 100
C12_Witness ==
    /\ Cycled
    /\ health.satelliteScore = 100 /\ health.hdopScore = 100 /\ health.snrScore = 100
    /\ health.fixAgeScore = 100 /\ health.fixModeScore = 100
    /\ health.overallScore = 100

\* a step table: the score of the first row <<bound, score>> whose bound the
\* input satisfies, otherwise the last score
RECURSIVE StepScore(_, _, _, _)
StepScore(rows, Holds(_, _), v, otherwise) ==
    IF rows = << >> THEN otherwise
    ELSE IF Holds(v, Head(rows)[1]) THEN Head(rows)[2]
    ELSE StepScore(Tail(rows), Holds, v, otherwise)

SatelliteTable(sats) ==
    StepScore(<< <<12, 100>>, <<8, 80>>, <<6, 60>>, <<4, 40>>, <<1, 20>> >>,
              LAMBDA v, b : v >= b, sats, 0)

\* HDOP in tenths
HdopTable(hdop) ==
    IF hdop = 0 THEN 0
    ELSE StepScore(<< <<10, 100>>, <<20, 80>>, <<50, 60>>, <<100, 40>>, <<200, 20>> >>,
                   LAMBDA v, b : v <= b, hdop, 10)

\* the average is sum / count
SnrTable(avg) ==
    IF avg.sum = 0 THEN 0
    ELSE StepScore(<< <<40, 100>>, <<35, 80>>, <<30, 60>>, <<25, 40>>, <<20, 20>> >>,
                   LAMBDA v, b : v.sum >= b * v.count, avg, 10)

\* the age in milliseconds
AgeTable(age) ==
    StepScore(<< <<1000, 100>>, <<2000, 80>>, <<5000, 60>>, <<10000, 40>>, <<30000, 20>> >>,
              LAMBDA v, b : v < b, age, 0)

ModeTable(mode) == IF mode = 3 THEN 100 ELSE IF mode = 2 THEN 60 ELSE 0

\* the inputs the tables are compared on
AgeInputs == {0, 500, 999, 1000, 1001, 1999, 2000, 4999, 5000, 9999, 10000, 10001,
              29999, 30000, 30001, 372000}

\* the five scoring functions agree with the tables on every input, and the
\* scenario satellites=10, HDOP=1.5, SNR=38, age=500 ms, mode=3 scores
\* (80, 80, 80, 100, 100)
C13_EveryInput ==
    /\ \A sats \in 0..MAX_SATELLITES : calculateSatelliteScore(sats) = SatelliteTable(sats)
    /\ \A hdop \in 0..250 : calculateHDOPScore(hdop) = HdopTable(hdop)
    /\ \A count \in 1..3 : \A sum \in 0..(50 * count) :
          calculateSNRScore([sum |-> sum, count |-> count])
             = SnrTable([sum |-> sum, count |-> count])
    /\ \A age \in AgeInputs : calculateFixAgeScore(age) = AgeTable(age)
    /\ \A mode \in 0..255 : calculateFixModeScore(mode) = ModeTable(mode)
    /\ calculateSatelliteScore(10) = 80
    /\ calculateHDOPScore(15) = 80
    /\ calculateSNRScore([sum |-> 38, count |-> 1]) = 80
    /\ calculateFixAgeScore(500) = 100
    /\ calculateFixModeScore(3) = 100

\* at the end of a cycle the five scores are the tables of the inputs the
\* cycle left
C13_ScoresOfTheCycle ==
    Cycled =>
       /\ health.satelliteScore = SatelliteTable(gpsData.satellites)
       /\ health.hdopScore = HdopTable(gpsData.hdop)
       /\ health.snrScore = SnrTable(getAverageSNR(satTracking))
       /\ health.fixAgeScore = AgeTable(gpsData.updateAge)
       /\ health.fixModeScore = ModeTable(gpsData.fixMode)

\* C13 as stated: each of the five component scores is the step table of its
\* input, and the scenario scores (80, 80, 80, 100, 100) give 84 overall.
C13_StepTablesAndOverall84 ==
    /\ C13_EveryInput
    /\ C13_ScoresOfTheCycle
    /\ gpsScore(80, 80, 80, 100, 100) = 84

\* C13 amended: each of the five component scores is the step table of its
\* input, and the scenario scores (80, 80, 80, 100, 100) give 85 overall:
\* (2400 + 2000 + 1600 + 1500 + 1000) / 100.
C13_StepTablesAndOverall85 ==
    /\ C13_EveryInput
    /\ C13_ScoresOfTheCycle
    /\ gpsScore(80, 80, 80, 100, 100) = 85

\* a cycle scored twelve satellites in use, an HDOP of 6.0, an average signal
\* of 20, a fresh fix and a 3D fix: 100, 40, 20, 100, 100
C13_Witness ==
    /\ Cycled
    /\ gpsData.satellites = 12 /\ gpsData.hdop = 60 /\ gpsData.updateAge = 0
    /\ gpsData.fixMode = 3 /\ getAverageSNR(satTracking) = [sum |-> 40, count |-> 2]
    /\ health.satelliteScore = 100 /\ health.hdopScore = 40 /\ health.snrScore = 20
    /\ health.fixAgeScore = 100 /\ health.fixModeScore = 100

\* the alert of a state: <<critical, warning, message>>
Alert == <<health.criticalAlert, health.warningAlert, health.alertMessage>>

\* the first row <<condition, alert>> whose condition holds, otherwise no alert
RECURSIVE FirstMatch(_)
FirstMatch(rows) ==
    IF rows = << >> THEN <<FALSE, FALSE, "">>
    ELSE IF Head(rows)[1] THEN Head(rows)[2]
    ELSE FirstMatch(Tail(rows))

\* the conditions the cycle left that the alerts are about
Unresponsive == watchdog.unresponsive
NoFixAtAll == ~gpsData.timeValid /\ ~gpsData.valid
DataTimeout == gpsData.updateAge > GPS_DATA_TIMEOUT
LowSatellites == gpsData.satellites < thresholds.minSatellites
HighHdop == gpsData.hdop > thresholds.maxHDOP
HighPdop == gpsData.pdop > thresholds.maxPDOP
AverageBelow ==
    getAverageSNR(satTracking).sum < thresholds.minAvgSNR * getAverageSNR(satTracking).count

\* the cycle ran after the startup grace period
AfterGrace == Cycled /\ now >= thresholds.minUptime

\* the rows of the alert order, the last one on condition lowSignal
AlertRows(lowSignal) ==
    << <<Unresponsive, <<TRUE, FALSE, "GPS module unresponsive">>>>,
       <<NoFixAtAll, <<TRUE, FALSE, "No GPS fix">>>>,
       <<DataTimeout, <<TRUE, FALSE, "GPS data timeout">>>>,
       <<LowSatellites,
         <<FALSE, TRUE, "Low satellite count: " \o ToString(gpsData.satellites)>>>>,
       <<HighHdop, <<FALSE, TRUE, "High HDOP: " \o OneDecimal(gpsData.hdop)>>>>,
       <<HighPdop, <<FALSE, TRUE, "High PDOP: " \o OneDecimal(gpsData.pdop)>>>>,
       <<lowSignal, <<FALSE, TRUE, SignalMessage(getAverageSNR(satTracking))>>>> >>

EntriesOfType(log, type) ==
    Cardinality({i \in 1..Len(log.events) : log.events[i].type = type})

\* the cycle of the step met the condition of the event type
Raised(type) ==
    /\ received' # NotRun
    /\ CASE type = "EVENT_LOW_SATELLITE_COUNT" ->
              gpsData'.satellites < thresholds.minSatellites
         [] type = "EVENT_HIGH_HDOP" ->
              tinyGPS'.hdopValid /\ tinyGPS'.hdop > thresholds.maxHDOP
         [] type = "EVENT_HIGH_PDOP" ->
              gpsData'.pdop > thresholds.maxPDOP
         [] type = "EVENT_GPS_UNRESPONSIVE" ->
              /\ received' = "none"
              /\ ~watchdog.unresponsive
              /\ now' - watchdog.lastCharReceived > GPS_HEARTBEAT_TIMEOUT

\* an entry of the type was logged less than the cooldown before the step's cycle
LoggedInCooldown(type) ==
    \E i \in 1..Len(eventLog.events) :
       /\ eventLog.events[i].type = type
       /\ now' - eventLog.events[i].timestamp < EVENT_COOLDOWN

\* C15: at every time since start-up, a cycle that raises the condition of a
\* cooldown-gated event type appends one entry of that type unless an entry
\* of that type was appended within the last 60 s, and then it appends none:
\* two raisings within the cooldown leave one entry, a raising after the
\* cooldown a second one.
C15_OneEntryPerCooldown ==
    [][\A type \in {"EVENT_LOW_SATELLITE_COUNT", "EVENT_HIGH_HDOP", "EVENT_HIGH_PDOP",
                    "EVENT_GPS_UNRESPONSIVE"} :
          Raised(type) =>
             EntriesOfType(eventLog', type)
                = EntriesOfType(eventLog, type)
                    + (IF LoggedInCooldown(type) THEN 0 ELSE 1)]_vars

\* the samples of the ring are at least one recording interval apart
SamplesApart(h) ==
    \A i, j \in 1..Len(h.points) :
       i # j => \/ h.points[i].timestamp - h.points[j].timestamp >= HISTORY_INTERVAL
                \/ h.points[j].timestamp - h.points[i].timestamp >= HISTORY_INTERVAL

\* the sample the next write overwrites: the oldest one of a full ring
OldestSample(h) == h.points[h.head + 1]

\* C16: after any number of writes the ring holds at most 60 samples and its
\* head is in 0..59; a write into the full ring (the 61st accepted write, and
\* every later one) removes the oldest sample and leaves the count at 60; at
\* most one sample is accepted per 10 s.
C16_RingBounded ==
    [][/\ history'.count \in 0..HISTORY_BUFFER_SIZE
       /\ history'.head \in 0..(HISTORY_BUFFER_SIZE - 1)
       /\ Len(history'.points) = history'.count
       /\ SamplesApart(history')
       /\ IF now' - history.lastRecordTime < HISTORY_INTERVAL
          THEN history' = history
          ELSE /\ \E i \in 1..history'.count : history'.points[i].timestamp = now'
               /\ IF history.count = HISTORY_BUFFER_SIZE
                  THEN /\ history'.count = HISTORY_BUFFER_SIZE
                       /\ \A i \in 1..history'.count :
                             history'.points[i].timestamp # OldestSample(history).timestamp
                  ELSE history'.count = history.count + 1]_vars

\* 61 writes were accepted: the ring is full, the head is back at slot 1 and
\* the first sample, taken at 11000, is gone
C16_Witness ==
    /\ history.count = HISTORY_BUFFER_SIZE
    /\ history.head = 1
    /\ history.points[1].timestamp = history.lastRecordTime
    /\ \A i \in 1..history.count : history.points[i].timestamp > 11000
    /\ history.points[2].timestamp <= 26000

\* C19: at every time since start-up, a cycle that runs more than 10 s after
\* the last byte was received ends with the watchdog's unresponsive flag set
\* and, once the startup grace period is over, with the critical alert
\* "GPS module unresponsive".
C19_UnresponsiveAfterSilence ==
    [][received' = "none" /\ now' - watchdog.lastCharReceived > GPS_HEARTBEAT_TIMEOUT
         => /\ watchdog'.unresponsive
            /\ now' >= thresholds.minUptime
                 => /\ health'.criticalAlert
                    /\ health'.alertMessage = "GPS module unresponsive"]_vars

\* C20: a cycle that starts with the unresponsive flag set and reads at least
\* one byte ends with the flag false and without the unresponsive alert.
C20_ByteClearsUnresponsive ==
    [][watchdog.unresponsive /\ received' \in {"bytes", "sentence"}
         => /\ ~watchdog'.unresponsive
            /\ health'.alertMessage # "GPS module unresponsive"
            /\ now' >= thresholds.minUptime
                 => Alert' = FirstMatch(Tail(AlertRows(AverageBelow
                                                  /\ getAverageSNR(satTracking).sum > 0)))']_vars

\* after the grace period a cycle read bytes while the flag was set: the log
\* has the recovery entry of this cycle after an unresponsive entry, and the
\* flag and the alert are cleared
C20_Witness ==
    /\ AfterGrace
    /\ received = "bytes"
    /\ ~watchdog.unresponsive
    /\ health.alertMessage # "GPS module unresponsive"
    /\ \E i \in 2..Len(eventLog.events) :
          /\ eventLog.events[i].message = "GPS module recovered"
          /\ eventLog.events[i].timestamp = now
          /\ eventLog.events[i - 1].type = "EVENT_GPS_UNRESPONSIVE"
          /\ eventLog.events[i - 1].timestamp >= thresholds.minUptime

----------------------------------------------------------------------------
(* Claims about the client table                                           *)

\* the table holds an entry for address a
Tracked(cl, a) == \E i \in 1..Len(cl) : cl[i].ip = a

\* the first of the entries that have the smallest lastRequest
Oldest(cl) ==
    CHOOSE i \in 1..Len(cl) :
       /\ \A j \in 1..Len(cl) : cl[i].lastRequest <= cl[j].lastRequest
       /\ \A j \in 1..(i - 1) : cl[j].lastRequest > cl[i].lastRequest

\* the step serves a request of an address the full table does not hold
EvictingStep ==
    /\ delivered'.size = NTP_PACKET_SIZE
    /\ Len(ntp.clients) = ntp.config.maxClients
    /\ ~Tracked(ntp.clients, delivered'.ip)
    /\ ntp'.metrics.validResponses = ntp.metrics.validResponses + 1

\* the sweep of stale entries ran in the step
SweepStep == ntp'.lastCleanup # ntp.lastCleanup

\* C17: when the table holds config.maxClients entries and a request of an
\* address that is not in the table is served, the entry with the smallest
\* lastRequest (the first of them) is replaced by an entry of the new address
\* whose requestCount is 1, every other entry is unchanged and clientCount is
\* unchanged.  If the sweep of the same process() call ran after the request,
\* the new entry is present with requestCount 1, the replaced address is gone,
\* and the entries of the other addresses are entries the table held before.
C17_FullTableReplacesOldest ==
    [][ EvictingStep =>
          LET old == ntp.clients
              new == ntp'.clients
              a == delivered'.ip
              o == Oldest(old)
          IN  IF ~SweepStep
              THEN /\ Len(new) = Len(old)
                   /\ ntp'.metrics.uniqueClients = ntp.metrics.uniqueClients
                   /\ new[o].ip = a
                   /\ new[o].requestCount = 1
                   /\ \A i \in 1..Len(old) : i # o => new[i] = old[i]
              ELSE /\ \E j \in 1..Len(new) : new[j].ip = a /\ new[j].requestCount = 1
                   /\ ~Tracked(new, old[o].ip)
                   /\ \A j \in 1..Len(new) :
                         new[j].ip # a => \E i \in 1..Len(old) : i # o /\ new[j] = old[i]
      ]_vars

\* the second slot of a full table, holding ipB, was given to ipC while the
\* entry of ipA, refreshed later than that of ipB, stayed in the first slot
C17_Witness ==
    /\ delivered.size = NTP_PACKET_SIZE
    /\ delivered.ip = "ipC"
    /\ Len(ntp.clients) = 2
    /\ ntp.clients[1].ip = "ipA" /\ ntp.clients[1].requestCount = 2
    /\ ntp.clients[2].ip = "ipC" /\ ntp.clients[2].requestCount = 1
    /\ ntp.clients[2].lastRequest = now
    /\ lastServed["ipB"] > 0
    /\ lastServed["ipA"] > lastServed["ipB"]
    /\ lastServed["ipC"] = now

\* the entry was used within the last hour
Fresh(c, t) == ~(t - c.lastRequest > NTP_CLIENT_TIMEOUT)

\* the sweep is due every five minutes
SweepInterval == 300000

\* C18: a process() call that finds nothing in the socket and runs the sweep
\* leaves exactly the entries used within the last hour, unchanged and in the
\* order they had, and clientCount (with the uniqueClients metric) is their
\* number; after every sweep no entry is older than an hour; and after every
\* process() call no entry has been older than an hour for more than one sweep
\* interval.
C18_SweepKeepsFreshInOrder ==
    [][ /\ SweepStep =>
             /\ \A i \in 1..Len(ntp'.clients) : Fresh(ntp'.clients[i], now')
             /\ ntp'.metrics.uniqueClients = Len(ntp'.clients)
             /\ delivered'.size = 0 =>
                   LET t == now'
                   IN  ntp'.clients = SelectSeq(ntp.clients, LAMBDA c : Fresh(c, t))
        /\ \A i \in 1..Len(ntp'.clients) :
              now' - ntp'.clients[i].lastRequest <= NTP_CLIENT_TIMEOUT + SweepInterval
      ]_vars

\* the table held ipA, last served at 302000, in front of ipB, last served at
\* 3605000; the sweep at 3906000 has just removed the first and kept the second
C18_Witness ==
    /\ delivered.size = 0
    /\ ntp.lastCleanup = now
    /\ now = 3906000
    /\ ntp.metrics.validResponses = 2
    /\ lastServed["ipA"] = 302000
    /\ lastServed["ipB"] = 3605000
    /\ Len(ntp.clients) = 1
    /\ ntp.clients[1].ip = "ipB"
    /\ ntp.clients[1].lastRequest = 3605000
    /\ ntp.metrics.uniqueClients = 1

----------------------------------------------------------------------------
(* Claims about staleness and ageing                                       *)

\* the decoder reports neither a valid time nor a valid position in the cycle
\* of the step, and the snapshot was refreshed by a fix before
FixGone ==
    /\ received' # NotRun
    /\ ~tinyGPS'.timeValid /\ ~tinyGPS'.locationValid
    /\ gpsData.lastUpdateMillis > 0

\* C21: when the decoder no longer reports a valid time and position after the
\* snapshot had a fix, the first cycle in which the snapshot's age exceeds the
\* data timeout leaves valid and timeValid false and appends a GPS-timeout
\* event, provided that event type is outside its cooldown.
C21_StaleFixRaisesTimeout ==
    [][ ( /\ FixGone
          /\ gpsData.updateAge <= GPS_DATA_TIMEOUT
          /\ gpsData'.updateAge > GPS_DATA_TIMEOUT
          /\ now' - watchdog.lastEventTime["EVENT_GPS_TIMEOUT"] >= EVENT_COOLDOWN )
        => /\ ~gpsData'.valid
           /\ ~gpsData'.timeValid
           /\ EntriesOfType(eventLog', "EVENT_GPS_TIMEOUT")
                = EntriesOfType(eventLog, "EVENT_GPS_TIMEOUT") + 1
      ]_vars

\* the age at which GPS::cleanupStaleSatellites clears the table
SatelliteTimeout == 30000

\* the entries of a table that are reported as tracked
TrackedEntries(st) == {i \in 1..Len(st.satellites) : st.satellites[i].tracked}

\* C22: a cycle that reads no sentence of the satellite table more than 30 s
\* after the last sentence touched the table leaves no entry tracked.
C22_UntouchedTableAgesOut ==
    [][ ( /\ received' \in {"none", "bytes"}
          /\ now' - satTracking.lastUpdate > SatelliteTimeout )
        => TrackedEntries(satTracking') = {}
      ]_vars

\* C23: once a line has overflowed the buffer, nothing of it is given to
\* parseNMEASentence and the bytes that follow are not collected until a '$'
\* starts a new line.
C23_OverlongLineDiscarded ==
    [][ /\ (lineLog'.ready /\ lineLog.overflowed) => lineLog'.sentence = << >>
        /\ lineLog'.overflowed => gpsBuffer' = << >>
      ]_vars

----------------------------------------------------------------------------
(* Claims about replies and broadcasts                                     *)

\* the step is a process() call or a sendBroadcast() call that sent its datagram
Sending == Called \/ ntp'.metrics.broadcastsSent # ntp.metrics.broadcastsSent

BroadcastAddress == "255.255.255.255"

\* the leap indicator, the top two bits of byte 0
LeapOf(pkt) == pkt.flags \div 64

\* C24: every normal reply and every broadcast a step sends carries leap
\* indicator 3 if the snapshot the server reads has timeValid false or an
\* updateAge above 2000 ms, and 0 otherwise.
C24_LeapIndicatorFollowsSnapshot ==
    [][ Sending =>
          \A i \in 1..Len(ntp'.sent) :
             ntp'.sent[i].pkt.stratum # 0 =>
                LeapOf(ntp'.sent[i].pkt)
                   = IF ~gpsData'.timeValid \/ gpsData'.updateAge > 2000 THEN 3 ELSE 0
      ]_vars

\* a request was answered with a normal reply while the snapshot was 2001 ms old
C24_Witness ==
    /\ delivered.size = NTP_PACKET_SIZE
    /\ gpsData.timeValid /\ gpsData.updateAge = 2001
    /\ \E i \in 1..Len(ntp.sent) :
          /\ ntp.sent[i].ip = delivered.ip
          /\ ntp.sent[i].pkt.stratum = 1
          /\ ntp.sent[i].pkt.flags % 8 = 4
          /\ LeapOf(ntp.sent[i].pkt) = 3

\* the four conditions of the quality gate on the snapshot of the step
GateAfter ==
    /\ gpsData'.timeValid
    /\ gpsData'.satellites >= ntp.config.minSatellites
    /\ gpsData'.hdop <= ntp.config.maxHDOP
    /\ gpsData'.updateAge <= ntp.config.maxFixAge

\* the broadcast datagrams of a sequence of sent datagrams
Broadcasts(sent) == SelectSeq(sent, LAMBDA m : m.ip = BroadcastAddress)

\* C25: a step sends at most one broadcast, and only with broadcast enabled and
\* the quality gate passing; its mode is 5 and its other fields are those of a
\* normal reply (leap indicator by the rule of replies, version 4, the
\* server's stratum and reference id, poll 6, precision 0xEC, no originate
\* time, receive and transmit time equal); a broadcast sent from process()
\* comes more than broadcastInterval seconds after the broadcast before it.
C25_BroadcastGatedSpacedMode5 ==
    [][ Sending =>
          LET b == Broadcasts(ntp'.sent)
          IN  /\ Len(b) <= 1
              /\ Len(b) = 1 =>
                    /\ ntp.config.broadcastEnabled
                    /\ GateAfter
                    /\ b[1].pkt.flags % 8 = 5
                    /\ (b[1].pkt.flags \div 8) % 8 = 4
                    /\ LeapOf(b[1].pkt) = IF gpsData'.updateAge > 2000 THEN 3 ELSE 0
                    /\ b[1].pkt.stratum = ntp.config.stratum
                    /\ b[1].pkt.refId = ntp.config.referenceID
                    /\ b[1].pkt.poll = 6
                    /\ b[1].pkt.precision = 236
                    /\ b[1].pkt.origTs = ZeroTimestamp
                    /\ b[1].pkt.recvTs = b[1].pkt.xmitTs
                    /\ ntp'.lastBroadcast = now'
                    /\ (Called /\ ntp.metrics.broadcastsSent > 0) =>
                          now' - ntp.lastBroadcast > ntp.config.broadcastInterval * 1000
      ]_vars

\* process() has just sent the third broadcast of the run, at the last clock reading
C25_Witness ==
    /\ delivered # NotCalled
    /\ Len(Broadcasts(ntp.sent)) = 1
    /\ ntp.metrics.broadcastsSent = 3
    /\ ntp.lastBroadcast = now
    /\ now = 5503

----------------------------------------------------------------------------
(* Claims about the satellite table                                        *)

\* the step parses a visibility sentence
VisibilityStep == parsed'.kind = "GSV" /\ parsed'.count = parsed.count + 1

\* the step parses an in-use sentence
InUseStep == parsed'.kind = "GNGSA" /\ parsed'.count = parsed.count + 1

\* C26: a visibility sentence leaves the inUse flag and the constellation tag
\* of every entry an in-use sentence has marked as they were.
C26_VisibilityKeepsInUse ==
    [][ VisibilityStep =>
          \A i \in 1..satTracking.count :
             satTracking.satellites[i].inUse =>
                /\ i <= satTracking'.count
                /\ satTracking'.satellites[i].prn = satTracking.satellites[i].prn
                /\ satTracking'.satellites[i].inUse
                /\ satTracking'.satellites[i].constellation
                      = satTracking.satellites[i].constellation
      ]_vars


\* C29: right after an in-use sentence is parsed the snapshot's pdop, hdop and
\* vdop are the three values of the sentence's tail, however many identifiers
\* the sentence lists.
C29_DopsTakenFromTail ==
    [][ InUseStep =>
          <<gpsData'.pdop, gpsData'.hdop, gpsData'.vdop>> \in DopTriples
      ]_vars


\* the entries of the table that hold identifier id
EntriesFor(st, id) == {i \in 1..st.count : st.satellites[i].prn = id}

\* C27: no two entries of the table hold the same satellite identifier.
C27_OneEntryPerIdentifier ==
    \A i, j \in 1..satTracking.count :
       satTracking.satellites[i].prn = satTracking.satellites[j].prn => i = j

\* the table holds MAX_SATELLITES entries and all of them are tracked
TableFull ==
    /\ satTracking.count = MAX_SATELLITES
    /\ \A i \in 1..MAX_SATELLITES : satTracking.satellites[i].tracked

\* C28: the table never holds more than 32 entries, and a sentence that
\* arrives when the table is full leaves an entry for every identifier it
\* names.
C28_FullTableStoresNewSatellite ==
    [][ /\ satTracking'.count <= MAX_SATELLITES
        /\ Len(satTracking'.satellites) <= MAX_SATELLITES
        /\ (TableFull /\ parsed'.count = parsed.count + 1) =>
              \A id \in parsed'.listed : EntriesFor(satTracking', id % 256) # {}
      ]_vars

\* C30: when the visibility sentence whose group of satellite 6 has an empty
\* SNR field is parsed and the table has room, every other satellite the
\* sentence names is stored with its own elevation, azimuth and SNR.
C30_EmptyFieldAffectsOneSatellite ==
    [][ (VisibilityStep /\ 6 \in parsed'.listed /\ satTracking.count + 4 <= MAX_SATELLITES) =>
          \A id \in parsed'.listed \ {6} :
             \E i \in EntriesFor(satTracking', id) :
                /\ satTracking'.satellites[i].elevation = 45
                /\ satTracking'.satellites[i].azimuth = 120
                /\ satTracking'.satellites[i].snr = 30
      ]_vars

----------------------------------------------------------------------------
(* Claims about the fields of replies and the counters of the server       *)

\* the step is a process() call whose request was answered with a normal reply
Served ==
    /\ Called
    /\ delivered'.size = NTP_PACKET_SIZE
    /\ Handled.metrics.validResponses = ntp.metrics.validResponses + 1

\* C31: a normal reply to a request of version v and stratum s adds one to the
\* tally of version v and to the tally of stratum s and changes no other tally.
C31_TalliesFollowRequest ==
    [][ Served =>
          LET v == extractVersion(delivered'.pkt)
              s == extractStratum(delivered'.pkt)
          IN  /\ ntp'.metrics.clientVersions
                    = [ntp.metrics.clientVersions EXCEPT ![v - 1] = @ + 1]
              /\ ntp'.metrics.requestsByStratum
                    = [ntp.metrics.requestsByStratum EXCEPT ![s] = @ + 1]
      ]_vars

\* C32: a normal reply has the version of the request, mode 4, the stratum of
\* the configuration and the request's poll exponent clamped to 4..10.
C32_ReplyEchoesVersionAndPoll ==
    [][ Served =>
          /\ Len(Handled.sent) = 1
          /\ Handled.sent[1].ip = delivered'.ip
          /\ extractVersion(Handled.sent[1].pkt) = extractVersion(delivered'.pkt)
          /\ Handled.sent[1].pkt.flags % 8 = 4
          /\ Handled.sent[1].pkt.stratum = ntp.config.stratum
          /\ Handled.sent[1].pkt.poll = extractPollInterval(delivered'.pkt)
      ]_vars

\* C33: byte 0 of every denial reply is leap indicator 3, version 4, mode 4.
C33_DenialFlagsVersion4 ==
    [][ Called =>
          \A i \in 1..Len(ntp'.sent) :
             ntp'.sent[i].pkt.stratum = 0 =>
                /\ LeapOf(ntp'.sent[i].pkt) = 3
                /\ extractVersion(ntp'.sent[i].pkt) = 4
                /\ ntp'.sent[i].pkt.flags % 8 = 4
      ]_vars

\* C35: with per-client limiting on, a normal reply to an address comes at
\* least perClientMinInterval ms after the normal reply before it to the same
\* address.
C35_RepliesToOneAddressSpaced ==
    [][ (Served /\ ntp.config.rateLimitEnabled /\ lastServed[delivered'.ip] >= 0) =>
          now - lastServed[delivered'.ip] >= ntp.config.perClientMinInterval
      ]_vars

\* the four outcome counters of a request
Outcomes(m) ==
    <<m.rateLimitedRequests, m.invalidRequests, m.noGPSDropped, m.validResponses>>

\* the datagram is a Kiss-o'-Death with one of the two codes
DenialDatagram(m) == m.pkt.stratum = 0 /\ m.pkt.refId \in {"DENY", "RATE"}

\* C37: handling a 48-byte datagram adds one to exactly one of the four outcome
\* counters, sends at most one datagram, and adds one to kodSent exactly when
\* that datagram is a denial.
C37_OneOutcomePerDatagram ==
    [][ (Called /\ delivered'.size = NTP_PACKET_SIZE) =>
          LET before == Outcomes(ntp.metrics)
              after == Outcomes(Handled.metrics)
          IN  /\ \E k \in 1..4 :
                    \A i \in 1..4 : after[i] = before[i] + (IF i = k THEN 1 ELSE 0)
              /\ Outcomes(ntp'.metrics) = after
              /\ Len(Handled.sent) <= 1
              /\ ntp'.metrics.kodSent - ntp.metrics.kodSent
                    = Cardinality({i \in 1..Len(Handled.sent) : DenialDatagram(Handled.sent[i])})
              /\ \A i \in 1..Len(Handled.sent) :
                    Handled.sent[i].pkt.stratum = 0 => DenialDatagram(Handled.sent[i])
      ]_vars

\* three requests had three outcomes: one served, one denied for quality and
\* one denied for coming too soon, the last of them just now
C37_Witness ==
    /\ delivered.size = NTP_PACKET_SIZE
    /\ Outcomes(ntp.metrics) = <<1, 0, 1, 1>>
    /\ ntp.metrics.kodSent = 2
    /\ \E i \in 1..Len(ntp.sent) : IsDenial(ntp.sent[i], delivered.ip, "RATE")

\* C40: totalRequests is at least the number of normal replies plus the number
\* of denial replies.
C40_TotalCountsEveryRequest ==
    ntp.metrics.totalRequests >= ntp.metrics.validResponses + ntp.metrics.kodSent


\* C34: the aggressive flag of an entry is true exactly when its
\* aggressiveCount exceeds NTP_AGGRESSIVE_THRESHOLD, and an address whose entry
\* is flagged and still in the table after a step is still flagged.
C34_AggressiveFlagSticky ==
    [][ /\ \A i \in 1..Len(ntp'.clients) :
              ntp'.clients[i].aggressive
                 <=> ntp'.clients[i].aggressiveCount > NTP_AGGRESSIVE_THRESHOLD
        /\ \A a \in Addresses :
              \A i \in EntriesOf(ntp, a), j \in EntriesOf(ntp', a) :
                 /\ ntp.clients[i].aggressive => ntp'.clients[j].aggressive
                 /\ (~ntp.clients[i].aggressive /\ ntp'.clients[j].aggressive) =>
                       /\ ntp.clients[i].aggressiveCount = NTP_AGGRESSIVE_THRESHOLD
                       /\ ntp'.clients[j].aggressiveCount = NTP_AGGRESSIVE_THRESHOLD + 1
      ]_vars

\* an address was refused eleven times, its entry is flagged, and its latest
\* request has just been served
C34_Witness ==
    /\ delivered.size = NTP_PACKET_SIZE
    /\ NormalReplyTo(ntp, delivered.ip)
    /\ \E i \in EntriesOf(ntp, delivered.ip) :
          /\ ntp.clients[i].aggressive
          /\ ntp.clients[i].aggressiveCount = 11
          /\ ntp.clients[i].requestCount = 2


\* C36: clientCount never exceeds the number of slots allocated in begin(), so
\* no entry of the client table lies outside the allocated array.
C36_ClientTableInsideAllocation ==
    clientCount(ntp) <= ntp.allocated

----------------------------------------------------------------------------
(* Claims about alerts and calendar time                                   *)

\* C38: before the end of the startup period no alert is stored; the critical
\* and the warning alert are never stored together; the alert message is
\* non-empty exactly when one of the two is stored.
C38_AlertsExclusiveAfterGrace ==
    /\ now < thresholds.minUptime => ~health.criticalAlert /\ ~health.warningAlert
    /\ ~(health.criticalAlert /\ health.warningAlert)
    /\ health.alertMessage # "" <=> (health.criticalAlert \/ health.warningAlert)

\* after the startup period a cycle with a fix and twelve satellites in use
\* stores the warning for a PDOP of 9.0
C38_Witness ==
    /\ now = 312000
    /\ health.warningAlert /\ ~health.criticalAlert
    /\ health.alertMessage = "High PDOP: 9.0"
    /\ gpsData.timeValid


\* the number of days from 1970-01-01 to the date in the proleptic Gregorian
\* calendar, by the closed formula over 400-year eras with the year starting
\* in March
DaysFromCivil(c) ==
    LET y == IF c.month <= 2 THEN c.year - 1 ELSE c.year
        era == y \div 400
        yoe == y - era * 400
        mp == IF c.month > 2 THEN c.month - 3 ELSE c.month + 9
        doy == (153 * mp + 2) \div 5 + c.day - 1
        doe == yoe * 365 + yoe \div 4 - yoe \div 100 + doy
    IN  era * 146097 + doe - 719468

\* the seconds since 1970-01-01T00:00:00 as <<high, low>> with low below 65536
\* and high not reduced: high is below 65536 exactly if the count fits 32 bits
SecondsSinceEpoch(c) ==
    LET x == DaysFromCivil(c) * 1350
        low == (x % 1024) * 64 + c.hour * 3600 + c.minute * 60 + c.second
    IN  <<x \div 1024 + low \div 65536, low % 65536>>

\* C39: for every date and time of day the decoder reports, the snapshot's
\* unixTime is the number of seconds since 1970-01-01T00:00:00 of the
\* proleptic Gregorian calendar, and that number fits 32 bits.
C39_UnixTimeIsGregorian ==
    tinyGPS.timeValid =>
       /\ gpsData.unixTime = SecondsSinceEpoch(tinyGPS.date)
       /\ SecondsSinceEpoch(tinyGPS.date)[1] < 65536

\* the decoder reported 2105-12-31 23:59:59 and unixTime is 4291747199
C39_Witness ==
    /\ tinyGPS.timeValid
    /\ tinyGPS.date = [year |-> 2105, month |-> 12, day |-> 31,
                       hour |-> 23, minute |-> 59, second |-> 59]
    /\ gpsData.unixTime = <<65486, 56703>>

====
